---- MODULE Spec2Model ----
(***************************************************************************)
(* A model of catapult's release ledger: the versioned S3 objects that     *)
(* hold release and deploy records (src/catapult/release.py), and the      *)
(* commands that read and append them.                                     *)
(*                                                                         *)
(* Conventions.  Python's None is the string "None" in a string field and  *)
(* the empty tuple <<>> in an optional field (a present value x is <<x>>). *)
(* A commit (git.Oid, or its hex string) is a positive integer; the        *)
(* absent commit is NullOid.  A timestamp is an integer of the clock that  *)
(* produced it.  The S3 version stamp "null" is NullVersionId; the other   *)
(* stamps of a bucket are the positions of the writes that made them.      *)
(***************************************************************************)
EXTENDS Integers, Sequences, FiniteSets, TLC

(***************************************************************************)
(* Bounds of the model.                                                    *)
(***************************************************************************)
MaxLen == 3
MaxTime == 2
MaxVer == 2

None == "None"
NullVersionId == 0
NullOid == 0

Buckets == {"releases", "deploys"}
ReleaseBucket == "releases"
DeployBucket == "deploys"

\* The keys of a bucket, in the order S3 lists them.  OtherKey has
\* ProjectKey as a prefix.
ProjectKey == "app"
OtherKey == "app2"
KeyOrder == <<ProjectKey, OtherKey>>
Keys == {ProjectKey, OtherKey}
HasPrefix(key, prefix) == key = prefix \/ (prefix = ProjectKey /\ key = OtherKey)

Some(x) == <<x>>
Nothing == <<>>

(***************************************************************************)
(* State.                                                                  *)
(*   s3     : bucket -> the object versions it stores, in write order      *)
(*   vcache : process -> (bucket, key) -> the memo of _get_versions         *)
(*   out    : the last library call: its arguments and what it returned     *)
(*   pushed : the Release the last put_release returned                    *)
(*   repo   : the git repository of the working directory                  *)
(*   env    : the environment of the commands (config.IS_CONCOURSE)        *)
(*   proc   : command-line process -> where its command stands             *)
(***************************************************************************)
VARIABLES s3, vcache, out, pushed, repo, env, proc

vars == <<s3, vcache, out, pushed, repo, env, proc>>

\* ApiProc calls the library directly; the others each run one command of
\* the command line at a time.
ApiProc == "api"
CliProcs == {"p1", "p2", "p3"}
ProcOrder == [p \in CliProcs |-> CASE p = "p1" -> 1 [] p = "p2" -> 2 [] OTHER -> 3]
Procs == {ApiProc} \cup CliProcs

(***************************************************************************)
(* Sequences helpers.                                                      *)
(***************************************************************************)
Reverse(s) == [i \in 1..Len(s) |-> s[Len(s) + 1 - i]]

Range(s) == {s[i] : i \in 1..Len(s)}

\* The text of a changelog: which rendering of which commits.
Text(style, logs) == [style |-> style, logs |-> logs]
ChangelogUnavailable == Text("unavailable", <<>>)

(***************************************************************************)
(* The stored bodies.  A body is the text of an object version:            *)
(*   kind "notjson"   : json.load raises JSONDecodeError                   *)
(*   kind "nonobject" : JSON, but not an object (an array, null, a number) *)
(*   kind "object"    : a JSON object; obj maps its keys to their values   *)
(***************************************************************************)
NotJson == [kind |-> "notjson", obj |-> <<>>]
NonObject == [kind |-> "nonobject", obj |-> <<>>]
JsonObject(o) == [kind |-> "object", obj |-> o]

ActionTypeNames == {"manual", "automated"}

\* The Release dataclass.
Release(version, commit, version_id, image, timestamp, author, changelog, rollback, action_type, commits) ==
    [version |-> version, commit |-> commit, version_id |-> version_id,
     image |-> image, timestamp |-> timestamp, author |-> author,
     changelog |-> changelog, rollback |-> rollback,
     action_type |-> action_type, commits |-> commits]

(***************************************************************************)
(* The S3 operations the code calls.  A client is what a process sees:     *)
(* the store, and the process's memo (lru_cache keys on the client).       *)
(***************************************************************************)
Client(p) == [store |-> s3, memo |-> vcache[p]]

\* list_object_versions(Bucket, Prefix), all pages: the versions of the
\* keys with the prefix, key by key, most recently stored first.
RECURSIVE ListKeys(_, _, _)
ListKeys(stored, keys, prefix) ==
    IF keys = <<>> THEN <<>>
    ELSE (IF HasPrefix(Head(keys), prefix)
          THEN Reverse(SelectSeq(stored, LAMBDA e : e.Key = Head(keys)))
          ELSE <<>>) \o ListKeys(stored, Tail(keys), prefix)

ListObjectVersions(client, bucket, prefix) ==
    ListKeys(client.store[bucket], KeyOrder, prefix)

\* get_object(Bucket, Key[, VersionId]): the stored version with that stamp
\* (the latest one of the key when no stamp is given), NoSuchKey when there
\* is none.  A version written while the bucket was unversioned is returned
\* without a VersionId.
\* A store that answers a missing key with another error.
NoSuchKey_AsOtherError == [found |-> FALSE, error |-> "NotFound"]

NoSuchKey == [found |-> FALSE, error |-> "NoSuchKey"]
AccessDenied == [found |-> FALSE, error |-> "AccessDenied"]

\* The keys the client's credential may not read, for a client that has
\* some.
Denied(client, bucket, key) ==
    "denied" \in DOMAIN client /\ <<bucket, key>> \in client.denied

GetObject(client, bucket, key, version_id) ==
    LET stored == client.store[bucket]
        hits == {i \in 1..Len(stored) :
                    /\ stored[i].Key = key
                    /\ IF version_id = Nothing THEN stored[i].IsLatest
                       ELSE stored[i].VersionId = version_id[1]}
    IN  IF Denied(client, bucket, key) THEN AccessDenied
        ELSE IF hits = {} THEN NoSuchKey
        ELSE LET e == stored[CHOOSE i \in hits : TRUE]
             IN  [found |-> TRUE,
                  VersionId |-> IF e.VersionId = NullVersionId
                                THEN Nothing ELSE Some(e.VersionId),
                  LastModified |-> e.LastModified,
                  Body |-> e.Body]

(***************************************************************************)
(* fetch_release: the parse of one stored version.                         *)
(***************************************************************************)
Ok(r) == [err |-> "", release |-> r]
Raise(e) == [err |-> e, release |-> <<>>]

\* A parse that also requires the timestamp, which no stored body has.
RequiredFields_WithTimestamp ==
    {"version", "commit", "image", "author", "timestamp"}

RequiredFields == {"version", "commit", "image", "author"}

fetch_release(client, bucket, key, version_id) ==
    LET Parse(resp) ==
          IF ~resp.found
          THEN IF resp.error = "NoSuchKey" THEN Raise("InvalidRelease")
               ELSE Raise("ClientError")
          ELSE IF resp.Body.kind = "notjson" THEN Raise("InvalidRelease")
          ELSE IF resp.Body.kind = "nonobject" THEN Raise("TypeError")
          ELSE LET body == resp.Body.obj
                   Get(f, default) ==
                       IF f \in DOMAIN body THEN body[f] ELSE default
                   Typed(action_type) ==
                       IF action_type \notin ActionTypeNames
                       THEN Raise("InvalidRelease")
                       ELSE IF resp.VersionId = Nothing
                       THEN Raise("InvalidRelease")
                       ELSE Ok(Release(body.version, body.commit,
                                       resp.VersionId[1], body.image,
                                       resp.LastModified, body.author,
                                       Get("changelog", ChangelogUnavailable),
                                       Get("rollback", FALSE),
                                       action_type,
                                       Get("commits", Nothing)))
               IN  IF ~(RequiredFields \subseteq DOMAIN body)
                   THEN Raise("InvalidRelease")
                   ELSE Typed(Get("action_type",
                                  IF body.author = None THEN "automated"
                                  ELSE "manual"))
    IN  Parse(GetObject(client, bucket, key, version_id))

(***************************************************************************)
(* _get_versions: the version list of a key, oldest first.                 *)
(***************************************************************************)
\* sorted(versions, key=lambda v: v["LastModified"]): ascending and stable.
RECURSIVE InsertByLastModified(_, _)
InsertByLastModified(sorted, v) ==
    IF sorted = <<>> THEN <<v>>
    ELSE IF Head(sorted).LastModified <= v.LastModified
         THEN <<Head(sorted)>> \o InsertByLastModified(Tail(sorted), v)
         ELSE <<v>> \o sorted

RECURSIVE SortedByLastModified(_)
SortedByLastModified(versions) ==
    IF versions = <<>> THEN <<>>
    ELSE InsertByLastModified(
             SortedByLastModified(SubSeq(versions, 1, Len(versions) - 1)),
             versions[Len(versions)])

\* A _get_versions that keeps every version the prefix listing returns.
_get_versions_ByPrefix(client, bucket, key) ==
    SortedByLastModified(ListObjectVersions(client, bucket, key))

_get_versions(client, bucket, key) ==
    LET versions == ListObjectVersions(client, bucket, key)
        obj_versions == SortedByLastModified(versions)
    IN  SelectSeq(obj_versions,
                  LAMBDA version : /\ version.Key = key
                                   /\ version.VersionId # NullVersionId)

\* @functools.lru_cache on _get_versions: the first result for (client,
\* bucket, key) is the result of every later call.
lru_cache_get_versions(client, bucket, key) ==
    IF client.memo[bucket, key] # Nothing
    THEN client.memo[bucket, key][1]
    ELSE _get_versions(client, bucket, key)

Memoized(p, bucket, key) ==
    [vcache EXCEPT ![p][bucket, key] =
        Some(lru_cache_get_versions(Client(p), bucket, key))]

(***************************************************************************)
(* get_releases: the releases of a key, newest first.                      *)
(***************************************************************************)
DATETIME_MAX == MaxTime + 1

\* A sort key that forgets the IsLatest flag.
SortKey_ByLastModifiedOnly(v) == v.LastModified

\* A sort that forgets reverse=True.
SortKey_Ascending(v) ==
    IF v.IsLatest THEN 0 - DATETIME_MAX ELSE 0 - v.LastModified

\* key=lambda v: _DATETIME_MAX if v["IsLatest"] else v["LastModified"]
SortKey(v) == IF v.IsLatest THEN DATETIME_MAX ELSE v.LastModified

\* sorted(versions, key=SortKey, reverse=True): descending, and stable
\* (equal keys keep the order they had).
RECURSIVE InsertNewestFirst(_, _)
InsertNewestFirst(sorted, v) ==
    IF sorted = <<>> THEN <<v>>
    ELSE IF SortKey(Head(sorted)) >= SortKey(v)
         THEN <<Head(sorted)>> \o InsertNewestFirst(Tail(sorted), v)
         ELSE <<v>> \o sorted

RECURSIVE SortedNewestFirst(_)
SortedNewestFirst(versions) ==
    IF versions = <<>> THEN <<>>
    ELSE InsertNewestFirst(
             SortedNewestFirst(SubSeq(versions, 1, Len(versions) - 1)),
             versions[Len(versions)])

\* if since and release.version < since
BelowSince(release, since) ==
    since # Nothing /\ since[1] # 0 /\ release.version < since[1]

\* A loop that skips the releases below since and goes on.
RECURSIVE Yield_SkipAndContinue(_, _, _, _, _, _)
Yield_SkipAndContinue(client, bucket, key, since, versions, yielded) ==
    LET Step(got, rest) ==
          IF got.err = "InvalidRelease"
          THEN Yield_SkipAndContinue(client, bucket, key, since, rest, yielded)
          ELSE IF got.err # ""
          THEN [yielded |-> yielded, raised |-> TRUE]
          ELSE IF BelowSince(got.release, since)
          THEN Yield_SkipAndContinue(client, bucket, key, since, rest, yielded)
          ELSE Yield_SkipAndContinue(client, bucket, key, since, rest,
                                     Append(yielded, got.release))
    IN  IF versions = <<>> THEN [yielded |-> yielded, raised |-> FALSE]
        ELSE Step(fetch_release(client, bucket, key,
                                Some(Head(versions).VersionId)),
                  Tail(versions))

\* The generator's loop: what it yields, and whether an exception that is
\* not InvalidRelease ended it.
RECURSIVE Yield(_, _, _, _, _, _)
Yield(client, bucket, key, since, versions, yielded) ==
    LET Step(got, rest) ==
          IF got.err = "InvalidRelease"
          THEN Yield(client, bucket, key, since, rest, yielded)
          ELSE IF got.err # ""
          THEN [yielded |-> yielded, raised |-> TRUE]
          ELSE IF BelowSince(got.release, since)
          THEN [yielded |-> yielded, raised |-> FALSE]
          ELSE Yield(client, bucket, key, since, rest,
                     Append(yielded, got.release))
    IN  IF versions = <<>> THEN [yielded |-> yielded, raised |-> FALSE]
        ELSE Step(fetch_release(client, bucket, key,
                                Some(Head(versions).VersionId)),
                  Tail(versions))

get_releases(client, key, since, bucket) ==
    Yield(client, bucket, key, since,
          SortedNewestFirst(lru_cache_get_versions(client, bucket, key)),
          <<>>)

\* A read that runs the iterator to its end and takes the last release.
NextRelease_Oldest(client, key, bucket) ==
    LET Last(it) ==
          IF it.yielded # <<>>
          THEN [ret |-> Some(it.yielded[Len(it.yielded)]), raised |-> FALSE]
          ELSE [ret |-> Nothing, raised |-> it.raised]
    IN  Last(get_releases(client, key, Nothing, bucket))

\* next(get_releases(...), None)
NextRelease(client, key, bucket) ==
    LET First(it) ==
          IF it.yielded # <<>>
          THEN [ret |-> Some(it.yielded[1]), raised |-> FALSE]
          ELSE [ret |-> Nothing, raised |-> it.raised]
    IN  First(get_releases(client, key, Nothing, bucket))

\* A get_release that keeps looking and returns the last match.
get_release_LastMatch(client, key, version, bucket) ==
    LET Find(it) ==
          LET hits == {i \in 1..Len(it.yielded) :
                          \/ version = Nothing
                          \/ it.yielded[i].version = version[1]}
          IN  IF hits # {}
              THEN [ret |-> Some(it.yielded[CHOOSE i \in hits :
                                              \A j \in hits : i >= j]),
                    raised |-> FALSE]
              ELSE [ret |-> Nothing, raised |-> it.raised]
    IN  Find(get_releases(client, key, Nothing, bucket))

\* get_release: the first release of get_releases with that version number
\* (the first release when version is None), None when there is none.
get_release(client, key, version, bucket) ==
    LET Find(it) ==
          LET hits == {i \in 1..Len(it.yielded) :
                          \/ version = Nothing
                          \/ it.yielded[i].version = version[1]}
          IN  IF hits # {}
              THEN [ret |-> Some(it.yielded[CHOOSE i \in hits :
                                              \A j \in hits : i <= j]),
                    raised |-> FALSE]
              ELSE [ret |-> Nothing, raised |-> it.raised]
    IN  Find(get_releases(client, key, Nothing, bucket))

\* The JSON object put_release writes.
StoredBody(version, commit, changelog, image, author, rollback, action_type, commits) ==
    JsonObject([version |-> version, commit |-> commit,
                changelog |-> changelog, image |-> image, author |-> author,
                rollback |-> rollback, action_type |-> action_type,
                commits |-> commits])

(***************************************************************************)
(* put_release: the write of a release.                                    *)
(***************************************************************************)
\* A store that keeps one version per key: the write replaces it.
PutObject_Overwrite(store, bucket, key, body, last_modified) ==
    [store EXCEPT ![bucket] =
        SelectSeq(store[bucket], LAMBDA e : e.Key # key)
        \o <<[Key |-> key, VersionId |-> Len(store[bucket]) + 1,
              LastModified |-> last_modified, IsLatest |-> TRUE,
              Body |-> body]>>]

\* put_object(Bucket, Key, Body) on a versioned bucket: a new version of
\* the key, with a fresh stamp and the store's time; it becomes the latest
\* version of the key.
PutObject(store, bucket, key, body, last_modified) ==
    LET old == [i \in 1..Len(store[bucket]) |->
                   IF store[bucket][i].Key = key
                   THEN [store[bucket][i] EXCEPT !.IsLatest = FALSE]
                   ELSE store[bucket][i]]
        new == [Key |-> key,
                VersionId |-> Len(store[bucket]) + 1,
                LastModified |-> last_modified,
                IsLatest |-> TRUE,
                Body |-> body]
    IN  [store EXCEPT ![bucket] = Append(old, new)]

\* A put_release that leaves action_type out of the body.
Serialize_WithoutActionType(release) ==
    JsonObject([version |-> release.version, commit |-> release.commit,
                changelog |-> release.changelog, image |-> release.image,
                author |-> release.author, rollback |-> release.rollback,
                commits |-> IF release.commits # Nothing
                               /\ release.commits[1] # <<>>
                            THEN release.commits ELSE Nothing])

\* json.dumps({...}) of put_release.
Serialize(release) ==
    StoredBody(release.version, release.commit, release.changelog,
               release.image, release.author, release.rollback,
               release.action_type,
               IF release.commits # Nothing /\ release.commits[1] # <<>>
               THEN release.commits ELSE Nothing)

\* What put_release stores and what it returns: the release with the stamp
\* of the new version and the time of the caller's clock (utcnow).
put_release(client, bucket, key, release, last_modified, utcnow) ==
    LET Written(store) ==
          [store |-> store,
           ret |-> [release EXCEPT
                      !.version_id = store[bucket][Len(store[bucket])].VersionId,
                      !.timestamp = utcnow]]
    IN  Written(PutObject(client.store, bucket, key, Serialize(release),
                          last_modified))

\* The stored versions of a key, and the valid ones: a version stamp, a
\* JSON object, every required field.
Stored(bucket, key) == {e \in Range(s3[bucket]) : e.Key = key}

ValidEntry(e) ==
    /\ e.VersionId # NullVersionId
    /\ e.Body.kind = "object"
    /\ RequiredFields \subseteq DOMAIN e.Body.obj

(***************************************************************************)
(* The git repository.  repo.parents maps each commit to its parents, the  *)
(* first parent first; a parent has a smaller number than its child; HEAD  *)
(* is repo.head.                                                           *)
(***************************************************************************)
NCommits == 3
Commits == 1..NCommits

InRepo(r, oid) == oid \in DOMAIN r.parents

RECURSIVE Ancestors(_, _)
Ancestors(r, oid) ==
    {oid} \cup UNION {Ancestors(r, q) : q \in Range(r.parents[oid])}

\* repo.walk(start, GIT_SORT_TOPOLOGICAL): the commits reachable from
\* start, every commit before its parents.
RECURSIVE Descending(_)
Descending(S) ==
    IF S = {} THEN <<>>
    ELSE LET top == CHOOSE c \in S : \A d \in S : d <= c
         IN  <<top>> \o Descending(S \ {top})

Walk(r, start) == Descending(Ancestors(r, start))

\* utils.revparse: the commit a revision names; fatal when it names none.
\* No revision is HEAD.
revparse(r, revision) ==
    LET oid == IF revision = Nothing THEN r.head ELSE revision[1]
    IN  IF InRepo(r, oid) THEN [err |-> "", oid |-> oid]
        ELSE [err |-> "fatal", oid |-> NullOid]

\* utils.git_log, consumed to its end: the walk from start up to and
\* including end; InvalidRange when the walk ends without meeting end.
git_log(r, start, end) ==
    LET from == IF start = NullOid THEN r.head ELSE start
        Log(walk) ==
          LET at == {i \in 1..Len(walk) : walk[i] = end}
          IN  IF at # {}
              THEN [err |-> "", logs |-> SubSeq(walk, 1, CHOOSE i \in at : TRUE)]
              ELSE IF end # NullOid
              THEN [err |-> "InvalidRange", logs |-> <<>>]
              ELSE [err |-> "", logs |-> walk]
    IN  IF ~InRepo(r, from) THEN [err |-> "fatal", logs |-> <<>>]
        ELSE Log(Walk(r, from))

\* The paths a commit changes with respect to its first parent.
Files(oid) == IF oid % 2 = 1 THEN {"a"} ELSE {"b"}

\* utils.changelog: the commits between prev and latest and whether the
\* step is a rollback.  once tells that logs is a one-shot iterator
\* (reversed(...)) and not a list.
changelog(r, latest, prev, keep_only_files, keep_only_commits) ==
    LET unfiltered == /\ keep_only_files = Nothing
                      /\ (keep_only_commits = Nothing
                          \/ keep_only_commits[1] = <<>>)
        Filtered(rollback, err, walked) ==
          IF err # ""
          THEN [err |-> err, logs |-> <<>>, rollback |-> rollback,
                once |-> FALSE]
          ELSE IF /\ keep_only_files # Nothing
                  /\ \E i \in 1..Len(walked) : r.parents[walked[i]] = <<>>
          THEN [err |-> "IndexError", logs |-> <<>>, rollback |-> rollback,
                once |-> FALSE]
          ELSE [err |-> "",
                logs |-> SelectSeq(walked, LAMBDA c :
                           /\ keep_only_files # Nothing =>
                                 keep_only_files[1] \cap Files(c) # {}
                           /\ (/\ keep_only_commits # Nothing
                               /\ keep_only_commits[1] # <<>>) =>
                                 c \in Range(keep_only_commits[1])),
                rollback |-> rollback,
                once |-> rollback /\ unfiltered]
        Between(forward, backward) ==
          IF forward.err = "InvalidRange"
          THEN Filtered(TRUE, backward.err, Reverse(backward.logs))
          ELSE Filtered(FALSE, forward.err,
                        SubSeq(forward.logs, 1, Len(forward.logs) - 1))
    IN  Between(git_log(r, latest, prev), git_log(r, prev, latest))

\* The repositories of the working directory: a line of commits, and a
\* root with one branch per other commit.  user.email is configured.
Linear ==
    [parents |-> [c \in Commits |-> IF c = 1 THEN <<>> ELSE <<c - 1>>],
     head |-> NCommits, user_email |-> Some("me")]

Fork ==
    [parents |-> [c \in Commits |-> IF c = 1 THEN <<>> ELSE <<1>>],
     head |-> NCommits, user_email |-> Some("me")]

WorkRepos == {Linear, Fork}

\* Every repository of NCommits commits: a commit has no parent (a root),
\* one parent, or two (a merge).
ParentChoices ==
    {<<>>} \cup {<<p>> : p \in Commits}
           \cup {<<p, q>> : p, q \in Commits}

Repos ==
    {[parents |-> ps, head |-> NCommits, user_email |-> Some("me")] :
        ps \in {f \in [Commits -> ParentChoices] :
                  \A c \in Commits :
                      /\ \A i \in 1..Len(f[c]) : f[c][i] < c
                      /\ Len(f[c]) = 2 => f[c][1] # f[c][2]}}

\* repo.descendant_of(commit, ancestor)
descendant_of(r, commit, ancestor) ==
    commit # ancestor /\ ancestor \in Ancestors(r, commit)

\* A commit_contains that does not look for maybe_ancestor in the
\* repository before it asks for the descent.
commit_contains_UncheckedAncestor(r, commit, maybe_ancestor) ==
    IF ~InRepo(r, commit) THEN [err |-> "CommitNotFound", value |-> FALSE]
    ELSE IF commit = maybe_ancestor THEN [err |-> "", value |-> TRUE]
    ELSE IF ~InRepo(r, maybe_ancestor)
    THEN [err |-> "KeyError", value |-> FALSE]
    ELSE [err |-> "", value |-> descendant_of(r, commit, maybe_ancestor)]

\* utils.commit_contains: does commit contain maybe_ancestor?
commit_contains(r, commit, maybe_ancestor) ==
    IF ~InRepo(r, commit) THEN [err |-> "CommitNotFound", value |-> FALSE]
    ELSE IF ~InRepo(r, maybe_ancestor)
    THEN [err |-> "CommitNotFound", value |-> FALSE]
    ELSE IF commit = maybe_ancestor THEN [err |-> "", value |-> TRUE]
    ELSE [err |-> "", value |-> descendant_of(r, commit, maybe_ancestor)]

\* release.release_contains: True, False or the marker "?"; raised tells
\* that an exception other than CommitNotFound left it.  A release whose
\* commit is null or empty has commit NullOid.
release_contains(r, release_commit, commit_oid) ==
    LET Caught(in_release) ==
          IF in_release.err = "CommitNotFound"
          THEN [raised |-> FALSE, value |-> "?"]
          ELSE IF in_release.err # "" THEN [raised |-> TRUE, value |-> "?"]
          ELSE [raised |-> FALSE,
                value |-> IF in_release.value THEN "True" ELSE "False"]
    IN  IF release_commit = NullOid THEN [raised |-> FALSE, value |-> "?"]
        ELSE Caught(commit_contains(r, release_commit, commit_oid))

\* utils.get_author: the commit's author under Concourse, else git's
\* user.email, else the commit's author.
AuthorOf(oid) == "dev"

get_author(r, oid, is_concourse) ==
    IF is_concourse THEN AuthorOf(oid)
    ELSE IF r.user_email # Nothing THEN r.user_email[1]
    ELSE AuthorOf(oid)

ActionTypeOf(is_concourse) == IF is_concourse THEN "automated" ELSE "manual"

(***************************************************************************)
(* The commands `release new` and `deploy start`.  Each run of a command   *)
(* is a process of its own: it has not started, or it is between the two   *)
(* reads of `deploy start`, or at a prompt, or before its put_release, or  *)
(* it has ended, with status "ok" or "dry" (exit code 0), "fatal"          *)
(* (utils.fatal, exit code 1) or "raised" (an exception nobody catches,    *)
(* exit code 1).  A process remembers how many versions the release bucket *)
(* held when `release new` read it (seen), whether --version was given     *)
(* (explicit), and the stamp of the version it wrote (wrote).  It keeps    *)
(* the flags it was started with, the record it printed (release) and the  *)
(* answers it read at its prompts (asked).                                 *)
(***************************************************************************)
Idle ==
    [pc |-> "idle", cmd |-> "none", status |-> "", bucket |-> ReleaseBucket,
     release |-> Nothing, flags |-> Nothing, wrote |-> NullVersionId,
     explicit |-> FALSE, seen |-> 0, asked |-> <<>>]

\* The process of a command that has just started.
Run(cmd, bucket, flags) ==
    [Idle EXCEPT !.pc = "run", !.cmd = cmd, !.bucket = bucket,
                 !.flags = Some(flags)]

Ended(run, status) == [run EXCEPT !.pc = "done", !.status = status]

ExitCode(status) == IF status \in {"ok", "dry"} THEN 0 ELSE 1

Flags(dry, yes, rollback, now) ==
    [dry |-> dry, yes |-> yes, rollback |-> rollback, now |-> now]

\* A process that ends loses its memo; so does, in the model, a process
\* that will not read the store again.
Forget(memo, p) == [memo EXCEPT ![p] = [bk \in Buckets \X Keys |-> Nothing]]

\* Changelog.truncated_text, .short_text: a rendering of the commits.
truncated_text(logs) == Text("truncated", logs)
short_text(logs) == Text("short", logs)

\* The image `docker pull` finds for a commit.
ImageOf(oid) == oid

\* A version rule that forgets to add one.
next_version_NoIncrement(latest, version) ==
    IF version # Nothing THEN version[1]
    ELSE IF latest = Nothing THEN 1
    ELSE latest[1].version

\* The version of the new release (release.py:412-417).
next_version(latest, version) ==
    IF version # Nothing THEN version[1]
    ELSE IF latest = Nothing THEN 1
    ELSE latest[1].version + 1

\* `release new`, up to the Release it builds (release.py:401-447).
new_release(client, r, is_concourse, commit, version, image, flags) ==
    LET Build(latest, rev, log) ==
          IF latest.raised THEN [status |-> "raised", release |-> Nothing]
          ELSE IF rev.err # "" THEN [status |-> "fatal", release |-> Nothing]
          ELSE IF image = "not-found"
          THEN [status |-> "fatal", release |-> Nothing]
          ELSE IF log.err = "fatal"
          THEN [status |-> "fatal", release |-> Nothing]
          ELSE IF log.err # "" THEN [status |-> "raised", release |-> Nothing]
          ELSE [status |-> "",
                release |->
                  Some(Release(next_version(latest.ret, version),
                               rev.oid, NullVersionId, ImageOf(rev.oid),
                               flags.now,
                               get_author(r, rev.oid, is_concourse),
                               truncated_text(log.logs), log.rollback,
                               ActionTypeOf(is_concourse),
                               Some(IF log.once THEN <<>> ELSE log.logs)))]
        Logged(latest, rev) ==
          Build(latest, rev,
                changelog(r, rev.oid,
                          IF latest.ret = Nothing THEN NullOid
                          ELSE latest.ret[1].commit,
                          Nothing, Nothing))
    IN  Logged(NextRelease(client, ProjectKey, ReleaseBucket),
               revparse(r, commit))

\* A command that goes on to its prompts whatever the record.
AfterPrint_NoRollbackCheck(release, flags) ==
    IF flags.dry THEN [status |-> "dry", pc |-> "done"]
    ELSE [status |-> "",
          pc |-> IF flags.yes THEN "put"
                 ELSE IF release.rollback THEN "confirm_rollback"
                 ELSE "confirm"]

\* A command that does not look at dry.
AfterPrint_IgnoreDry(release, flags) ==
    IF release.rollback /\ ~flags.rollback
    THEN [status |-> "fatal", pc |-> "done"]
    ELSE [status |-> "",
          pc |-> IF flags.yes THEN "put"
                 ELSE IF release.rollback THEN "confirm_rollback"
                 ELSE "confirm"]

\* After the Release is printed (release.py:451-474, deploy.py:107-130):
\* the dry run returns, a rollback without --rollback is fatal, and without
\* --yes the prompts come next.  The status of the command if it ends
\* here, "" if it goes on, and then where.
AfterPrint(release, flags) ==
    IF flags.dry THEN [status |-> "dry", pc |-> "done"]
    ELSE IF release.rollback /\ ~flags.rollback
    THEN [status |-> "fatal", pc |-> "done"]
    ELSE [status |-> "",
          pc |-> IF flags.yes THEN "put"
                 ELSE IF release.rollback THEN "confirm_rollback"
                 ELSE "confirm"]

\* Processes are numbered in the order in which they start.
Started(p) == proc[p].pc # "idle"
MayStart(p) == ~Started(p) /\ \A q \in CliProcs : ProcOrder[q] < ProcOrder[p] => Started(q)

\* What a command does once its record is built and printed, or could not
\* be built.
Proceed(p, run, got) ==
    LET Go(after) ==
          [proc EXCEPT ![p] =
             IF after.status # ""
             THEN Ended([run EXCEPT !.release = got.release], after.status)
             ELSE [run EXCEPT !.pc = after.pc, !.release = got.release]]
    IN  Go(IF got.status # "" THEN [status |-> got.status, pc |-> "done"]
           ELSE AfterPrint(got.release[1], run.flags[1]))

NewStart(p, commit, version, image, flags) ==
    /\ MayStart(p)
    /\ proc' = Proceed(p,
                       [Run("new", ReleaseBucket, flags) EXCEPT
                          !.explicit = version # Nothing,
                          !.seen = Len(s3[ReleaseBucket])],
                       new_release(Client(p), repo, env.IS_CONCOURSE, commit,
                                   version, image, flags))
    /\ UNCHANGED <<s3, vcache, out, pushed, repo, env>>

\* A prompt that takes everything but n for a yes.
confirm_DefaultYes(answer) == answer \notin {"n", "N"}

\* utils.confirm: answer.lower() == "y"
confirm(answer) == answer \in {"y", "Y"}

\* A prompt (release.py:461-474, deploy.py:117-130): the command goes on
\* when utils.confirm returns True and is aborted otherwise.
Prompt(p, prompt, answer, next) ==
    /\ proc' = [proc EXCEPT ![p] =
                  IF confirm(answer)
                  THEN [@ EXCEPT !.pc = next,
                                 !.asked = Append(@, <<prompt, answer>>)]
                  ELSE Ended([@ EXCEPT !.asked = Append(@, <<prompt, answer>>)],
                             "fatal")]
    /\ UNCHANGED <<s3, vcache, out, pushed, repo, env>>

\* "Are you sure you want to create a rollback release?"
ConfirmRollback(p, answer) ==
    /\ proc[p].pc = "confirm_rollback"
    /\ Prompt(p, "rollback", answer, "confirm")

\* "Are you sure you want to create this release?"
Confirm(p, answer) ==
    /\ proc[p].pc = "confirm"
    /\ Prompt(p, "write", answer, "put")

\* A command that always writes to the release bucket.
Put_ToReleaseBucket(p, last_modified, utcnow) ==
    LET Done(put) ==
          /\ s3' = put.store
          /\ proc' = [proc EXCEPT ![p] =
                        Ended([@ EXCEPT !.wrote = put.ret.version_id], "ok")]
    IN  /\ proc[p].pc = "put"
        /\ Done(put_release(Client(p), ReleaseBucket, ProjectKey,
                            proc[p].release[1], last_modified, utcnow))
        /\ UNCHANGED <<vcache, out, pushed, repo, env>>

\* put_release(client, bucket, name, release) and the end of the command.
Put(p, last_modified, utcnow) ==
    LET Done(put) ==
          /\ s3' = put.store
          /\ proc' = [proc EXCEPT ![p] =
                        Ended([@ EXCEPT !.wrote = put.ret.version_id], "ok")]
    IN  /\ proc[p].pc = "put"
        /\ Done(put_release(Client(p), proc[p].bucket, ProjectKey,
                            proc[p].release[1], last_modified, utcnow))
        /\ UNCHANGED <<vcache, out, pushed, repo, env>>

\* `deploy start`, its read of the release bucket (deploy.py:45-52).
DeployStart(p, version, flags) ==
    LET Read(got) ==
          IF got.raised \/ got.ret = Nothing
          THEN /\ proc' = [proc EXCEPT ![p] =
                             Ended(Run("deploy", DeployBucket, flags),
                                   IF got.raised THEN "raised" ELSE "fatal")]
               /\ UNCHANGED vcache
          ELSE /\ proc' = [proc EXCEPT ![p] =
                             [Run("deploy", DeployBucket, flags) EXCEPT
                                !.pc = "deploy", !.release = got.ret]]
               /\ vcache' = Memoized(p, ReleaseBucket, ProjectKey)
    IN  /\ MayStart(p)
        /\ Read(IF version = Nothing
                THEN NextRelease(Client(p), ProjectKey, ReleaseBucket)
                ELSE get_release(Client(p), ProjectKey, version,
                                 ReleaseBucket))
        /\ UNCHANGED <<s3, out, pushed, repo, env>>

\* [commit for rel in releases if rel.commits for commit in rel.commits]
RECURSIVE Flatten(_)
Flatten(releases) ==
    IF releases = <<>> THEN <<>>
    ELSE Head(releases).commits[1] \o Flatten(Tail(releases))

\* `deploy start`, from its read of the deploy bucket to the record it
\* builds (deploy.py:54-103).
deploy_release(client, r, is_concourse, bucket, release, flags) ==
    LET Build(last_deploy, releases, commits, log) ==
          IF last_deploy.raised \/ releases.raised
          THEN [status |-> "raised", release |-> Nothing]
          ELSE IF log.err = "fatal"
          THEN [status |-> "fatal", release |-> Nothing]
          ELSE IF log.err # "" THEN [status |-> "raised", release |-> Nothing]
          ELSE [status |-> "",
                release |->
                  Some([release EXCEPT
                          !.changelog = short_text(log.logs),
                          !.timestamp = flags.now,
                          !.author = get_author(r, release.commit,
                                                is_concourse),
                          !.rollback = IF last_deploy.ret = Nothing
                                       THEN release.rollback
                                       ELSE log.rollback,
                          !.action_type = ActionTypeOf(is_concourse),
                          !.commits = commits])]
        Logged(last_deploy, releases, commits) ==
          Build(last_deploy, releases, commits,
                changelog(r, release.commit,
                          IF last_deploy.ret = Nothing THEN NullOid
                          ELSE last_deploy.ret[1].commit,
                          Nothing, commits))
        Listed(last_deploy, releases) ==
          Logged(last_deploy, releases,
                 IF \E i \in 1..Len(releases.yielded) :
                       releases.yielded[i].commits = Nothing
                 THEN Nothing
                 ELSE Some(Flatten(releases.yielded)))
        Since(last_deploy) ==
          Listed(last_deploy,
                 get_releases(client, ProjectKey,
                              Some(IF last_deploy.ret = Nothing THEN 0
                                   ELSE last_deploy.ret[1].version),
                              ReleaseBucket))
    IN  Since(NextRelease(client, ProjectKey, bucket))

DeployPrepare(p) ==
    /\ proc[p].pc = "deploy"
    /\ proc' = Proceed(p, proc[p],
                       deploy_release(Client(p), repo, env.IS_CONCOURSE,
                                      proc[p].bucket, proc[p].release[1],
                                      proc[p].flags[1]))
    /\ vcache' = Forget(vcache, p)
    /\ UNCHANGED <<s3, out, pushed, repo, env>>

(***************************************************************************)
(* Reads of a ledger: a process calls get_releases and get_release on a    *)
(* store that holds any history of at most MaxLen versions.                *)
(***************************************************************************)
NoOut ==
    [op |-> "none", bucket |-> ReleaseBucket, key |-> ProjectKey,
     since |-> Nothing, version |-> Nothing, release |-> Nothing,
     yielded |-> <<>>, raised |-> FALSE, ret |-> Nothing, args |-> <<>>]

NoMemo == [p \in Procs |-> [bk \in Buckets \X Keys |-> Nothing]]

\* The bodies a history may hold: not JSON, JSON that is no object, an
\* object without author, and valid releases.
SomeBody(version) ==
    StoredBody(version, 1, Text("truncated", <<1>>), 1, "me", FALSE,
               "manual", Some(<<1>>))

MissingAuthor ==
    JsonObject([version |-> 1, commit |-> 1, image |-> 1,
                changelog |-> Text("truncated", <<1>>)])

LedgerBodies ==
    {NotJson, NonObject, MissingAuthor} \cup {SomeBody(v) : v \in 1..MaxVer}

\* The histories of one key: each version has the store's stamp (or "null"
\* for at most one write made while the bucket was unversioned), any
\* LastModified, and the last write is the one flagged IsLatest.
Ledgers(key) ==
    UNION {
      { [i \in 1..n |->
            [Key |-> key,
             VersionId |-> IF i = null THEN NullVersionId ELSE i,
             LastModified |-> c[i].lm,
             IsLatest |-> (i = n),
             Body |-> c[i].body]] :
          c \in [1..n -> [lm : 1..MaxTime, body : LedgerBodies]],
          null \in 0..n }
      : n \in 0..MaxLen }

InitRead ==
    /\ \E ledger \in Ledgers(ProjectKey) :
          s3 = [b \in Buckets |-> IF b = ReleaseBucket THEN ledger ELSE <<>>]
    /\ vcache = NoMemo
    /\ out = NoOut
    /\ pushed = Nothing
    /\ repo = Linear
    /\ env = [IS_CONCOURSE |-> FALSE]
    /\ proc = [p \in CliProcs |-> Idle]

CallGetReleases(p, key, since, bucket) ==
    LET Return(it) ==
          out' = [NoOut EXCEPT !.op = "get_releases", !.bucket = bucket,
                               !.key = key, !.since = since,
                               !.yielded = it.yielded, !.raised = it.raised]
    IN  /\ Return(get_releases(Client(p), key, since, bucket))
        /\ vcache' = Memoized(p, bucket, key)
        /\ UNCHANGED <<s3, pushed, repo, env, proc>>

CallGetRelease(p, key, version, bucket) ==
    LET Return(got) ==
          out' = [NoOut EXCEPT !.op = "get_release", !.bucket = bucket,
                               !.key = key, !.version = version,
                               !.ret = got.ret, !.raised = got.raised]
    IN  /\ Return(get_release(Client(p), key, version, bucket))
        /\ vcache' = Memoized(p, bucket, key)
        /\ UNCHANGED <<s3, pushed, repo, env, proc>>

SinceArgs == {Nothing} \cup {Some(n) : n \in 0..MaxVer}
VersionArgs == {Nothing} \cup {Some(n) : n \in 1..(MaxVer + 1)}

NextRead ==
    \/ \E since \in SinceArgs :
          CallGetReleases(ApiProc, ProjectKey, since, ReleaseBucket)
    \/ \E version \in VersionArgs :
          CallGetRelease(ApiProc, ProjectKey, version, ReleaseBucket)

SpecRead == InitRead /\ [][NextRead]_vars

(***************************************************************************)
(* Writes through the library: a process puts one release on a versioned   *)
(* bucket, and reads the ledger before and after.  The store stamps the    *)
(* write with its own time; the caller reads its own clock.                *)
(***************************************************************************)
\* The releases a caller may put: version_id and timestamp are those of
\* the caller's value, which put_release replaces.
Releases ==
    {Release(version, 1, NullVersionId, image, 1, author,
             Text("truncated", <<1>>), rollback, action_type, commits) :
        version \in 1..MaxVer, image \in {NullOid, 1},
        author \in {None, "me"}, rollback \in BOOLEAN,
        action_type \in ActionTypeNames,
        commits \in {Nothing, Some(<<>>), Some(<<1>>)}}

InitPut ==
    /\ \E ledger \in {l \in Ledgers(ProjectKey) :
                        /\ Len(l) <= 1
                        /\ \A i \in 1..Len(l) : ValidEntry(l[i])} :
          s3 = [b \in Buckets |-> IF b = ReleaseBucket THEN ledger ELSE <<>>]
    /\ vcache = NoMemo
    /\ out = NoOut
    /\ pushed = Nothing
    /\ repo = Linear
    /\ env = [IS_CONCOURSE |-> FALSE]
    /\ proc = [p \in CliProcs |-> Idle]

CallPutRelease(p, bucket, key, release, last_modified, utcnow) ==
    LET Return(put) ==
          /\ s3' = put.store
          /\ pushed' = Some(put.ret)
          /\ out' = [NoOut EXCEPT !.op = "put_release", !.bucket = bucket,
                                  !.key = key, !.release = Some(release),
                                  !.ret = Some(put.ret)]
    IN  /\ pushed = Nothing
        /\ Return(put_release(Client(p), bucket, key, release, last_modified,
                              utcnow))
        /\ UNCHANGED <<vcache, repo, env, proc>>

NextPut ==
    \/ \E release \in Releases, last_modified, utcnow \in 1..MaxTime :
          CallPutRelease(ApiProc, ReleaseBucket, ProjectKey, release,
                         last_modified, utcnow)
    \/ \E since \in SinceArgs :
          CallGetReleases(ApiProc, ProjectKey, since, ReleaseBucket)
    \/ \E version \in VersionArgs :
          CallGetRelease(ApiProc, ProjectKey, version, ReleaseBucket)

SpecPut == InitPut /\ [][NextPut]_vars

(***************************************************************************)
(* The command line: processes that run `release new` and `deploy start`   *)
(* against the same buckets, one store call at a time.                     *)
(***************************************************************************)
Revisions == {Nothing} \cup {Some(c) : c \in 1..(NCommits + 1)}
NewVersions == {Nothing} \cup {Some(n) : n \in 1..MaxVer}
Images == {"found", "not-found"}
Now == 1
AllFlags ==
    {Flags(dry, yes, rollback, Now) :
        dry \in BOOLEAN, yes \in BOOLEAN, rollback \in BOOLEAN}
Answers == {"y", "Y", "n", ""}

Init ==
    /\ s3 = [b \in Buckets |-> <<>>]
    /\ vcache = NoMemo
    /\ out = NoOut
    /\ pushed = Nothing
    /\ repo \in WorkRepos
    /\ env \in [IS_CONCOURSE : BOOLEAN]
    /\ proc = [p \in CliProcs |-> Idle]

\* The flags of a command that runs unattended: --yes, so no prompt.
Unattended == {flags \in AllFlags : flags.yes}

\* Two unattended commands race.
Racers == {"p1", "p2"}

Next ==
    \/ \E p \in Racers, commit \in Revisions, version \in NewVersions,
          image \in Images, flags \in Unattended :
          NewStart(p, commit, version, image, flags)
    \/ \E p \in Racers, version \in VersionArgs, flags \in Unattended :
          DeployStart(p, version, flags)
    \/ \E p \in Racers : DeployPrepare(p)
    \/ \E p \in Racers, last_modified, utcnow \in 1..MaxTime :
          Put(p, last_modified, utcnow)

Spec == Init /\ [][Next]_vars

(***************************************************************************)
(* Unattended commands run one after another, from empty buckets, and      *)
(* `release new` is never given --version.                                 *)
(***************************************************************************)
Quiet == \A q \in CliProcs : proc[q].pc \in {"idle", "done"}

NextSeq ==
    \/ \E p \in CliProcs, commit \in Revisions, image \in Images,
          flags \in Unattended :
          Quiet /\ NewStart(p, commit, Nothing, image, flags)
    \/ \E p \in CliProcs, version \in VersionArgs, flags \in Unattended :
          Quiet /\ DeployStart(p, version, flags)
    \/ \E p \in CliProcs : DeployPrepare(p)
    \/ \E p \in CliProcs, last_modified, utcnow \in 1..MaxTime :
          Put(p, last_modified, utcnow)

SpecSeq == Init /\ [][NextSeq]_vars

(***************************************************************************)
(* One command, attended or not, on the buckets that at most SeedDepth     *)
(* earlier commands have left: every flag, every answer at the prompts.    *)
(***************************************************************************)
SeedDepth == 3

\* The client of a process that has read nothing yet.
Fresh(store) == [store |-> store, memo |-> NoMemo[ApiProc]]

\* The time of the next write to a bucket: the store's clock has moved on
\* since the write before, as far as MaxTime.
Tick(store, bucket) ==
    IF Len(store[bucket]) < MaxTime THEN Len(store[bucket]) + 1 ELSE MaxTime

\* The store after an unattended command: its record is stored unless the
\* command ended before.
Committed(store, bucket, got) ==
    IF got.status # "" THEN store
    ELSE put_release(Fresh(store), bucket, ProjectKey, got.release[1],
                     Tick(store, bucket), Now).store

\* catapult release new app --commit <commit> --yes --rollback
Released(store, r, is_concourse, commit) ==
    Committed(store, ReleaseBucket,
              new_release(Fresh(store), r, is_concourse, Some(commit),
                          Nothing, "found", Flags(FALSE, TRUE, TRUE, Now)))

\* catapult deploy start app <env> --yes --rollback
Deployed(store, r, is_concourse) ==
    LET Go(latest) ==
          IF latest.raised \/ latest.ret = Nothing THEN store
          ELSE Committed(store, DeployBucket,
                         deploy_release(Fresh(store), r, is_concourse,
                                        DeployBucket, latest.ret[1],
                                        Flags(FALSE, TRUE, TRUE, Now)))
    IN  Go(NextRelease(Fresh(store), ProjectKey, ReleaseBucket))

\* The buckets after at most n such commands, run one after another from
\* empty buckets.
RECURSIVE Histories(_, _, _)
Histories(r, is_concourse, n) ==
    IF n = 0 THEN {[b \in Buckets |-> <<>>]}
    ELSE LET Grown(before) ==
               before
               \cup {Released(store, r, is_concourse, commit) :
                       store \in before, commit \in Commits}
               \cup {Deployed(store, r, is_concourse) : store \in before}
         IN  Grown(Histories(r, is_concourse, n - 1))

InitCmd ==
    /\ repo \in WorkRepos
    /\ env \in [IS_CONCOURSE : BOOLEAN]
    /\ s3 \in Histories(repo, env.IS_CONCOURSE, SeedDepth)
    /\ vcache = NoMemo
    /\ out = NoOut
    /\ pushed = Nothing
    /\ proc = [p \in CliProcs |-> Idle]

\* The process of the command.
Cmd == "p1"

NextCmd ==
    \/ \E commit \in Revisions, version \in NewVersions, image \in Images,
          flags \in AllFlags :
          NewStart(Cmd, commit, version, image, flags)
    \/ \E version \in VersionArgs, flags \in AllFlags :
          DeployStart(Cmd, version, flags)
    \/ DeployPrepare(Cmd)
    \/ \E answer \in Answers : ConfirmRollback(Cmd, answer)
    \/ \E answer \in Answers : Confirm(Cmd, answer)
    \/ \E last_modified, utcnow \in 1..MaxTime :
          Put(Cmd, last_modified, utcnow)

SpecCmd == InitCmd /\ [][NextCmd]_vars

(***************************************************************************)
(* The commit graph: a process calls utils.changelog and release_contains  *)
(* on any repository of NCommits commits.                                  *)
(***************************************************************************)
InitLog ==
    /\ s3 = [b \in Buckets |-> <<>>]
    /\ vcache = NoMemo
    /\ out = NoOut
    /\ pushed = Nothing
    /\ repo \in Repos
    /\ env = [IS_CONCOURSE |-> FALSE]
    /\ proc = [p \in CliProcs |-> Idle]

CallChangelog(latest, prev, keep_only_files, keep_only_commits) ==
    /\ out' = [NoOut EXCEPT
                 !.op = "changelog",
                 !.args = <<latest, prev, keep_only_files, keep_only_commits>>,
                 !.ret = Some(changelog(repo, latest, prev, keep_only_files,
                                        keep_only_commits))]
    /\ UNCHANGED <<s3, vcache, pushed, repo, env, proc>>

CallReleaseContains(release_commit, commit_oid) ==
    /\ out' = [NoOut EXCEPT
                 !.op = "release_contains",
                 !.args = <<release_commit, commit_oid>>,
                 !.ret = Some(release_contains(repo, release_commit,
                                               commit_oid))]
    /\ UNCHANGED <<s3, vcache, pushed, repo, env, proc>>

\* The commits a caller may name: those of the repository and one that is
\* not in it.
Oids == 1..(NCommits + 1)
FileLists == {Nothing, Some({"a"})}
CommitLists == {Nothing, Some(<<>>), Some(<<2>>)}

NextLog ==
    \/ \E latest \in Oids, prev \in {NullOid} \cup Oids,
          keep_only_files \in FileLists, keep_only_commits \in CommitLists :
          CallChangelog(latest, prev, keep_only_files, keep_only_commits)
    \/ \E release_commit \in {NullOid} \cup Oids, commit_oid \in Oids :
          CallReleaseContains(release_commit, commit_oid)

SpecLog == InitLog /\ [][NextLog]_vars

(***************************************************************************)
(* projects.list_projects: the rows of `catapult projects`, for the        *)
(* release bucket and the deploy bucket of one environment.                *)
(***************************************************************************)
\* config["deploy"]: the environment of DeployBucket.
DeployEnv == "prod"

\* utils.s3_client(profile): the client of a credential that may not read
\* the denied keys.
s3_client(denied) == [store |-> s3, memo |-> NoMemo[ApiProc], denied |-> denied]

\* sorted(data["Key"] for data in resp.get("Contents", []))
ProjectNames(client, bucket) ==
    SelectSeq(KeyOrder,
              LAMBDA k : \E i \in 1..Len(client.store[bucket]) :
                            client.store[bucket][i].Key = k)

\* The Project tuple, without the times of the caller's clock.
Project(name, type, env_name, version, behind, timestamp, commit, action_type, contains, author) ==
    [name |-> name, type |-> type, env_name |-> env_name,
     version |-> version, behind |-> behind, timestamp |-> timestamp,
     commit |-> commit, action_type |-> action_type, contains |-> contains,
     permission |-> None, author |-> author]

\* A count of the versions behind that is never below 0.
behind_Clamped(release, deploy) ==
    IF release.version < deploy.version THEN 0
    ELSE release.version - deploy.version

\* behind=release.version - deploy.version
behind(release, deploy) == release.version - deploy.version

\* The loop over the project names: the rows, or the exception that left
\* the loop.  Only InvalidRelease is caught.
RECURSIVE ListRows(_, _, _, _, _, _, _)
ListRows(client, r, contains_oid, only, env_names, releases_only, names) ==
    LET name == Head(names)
        Rest(rows) ==
          LET More(rest) ==
                IF rest.raised # "" THEN rest
                ELSE [raised |-> "", rows |-> rows \o rest.rows]
          IN  More(ListRows(client, r, contains_oid, only, env_names,
                            releases_only, Tail(names)))
        Contains(release) ==
          IF contains_oid = Nothing THEN None
          ELSE release_contains(r, release.commit, contains_oid[1]).value
        ReleaseRow(release) ==
          IF releases_only \/ env_names = Nothing
          THEN <<Project(name, "release", "", release.version, 0,
                         release.timestamp, release.commit,
                         release.action_type, Contains(release),
                         release.author)>>
          ELSE <<>>
        DeployRow(release, deploy) ==
          IF env_names = Nothing \/ env_names[1] = {}
                \/ DeployEnv \in env_names[1]
          THEN <<Project(name, "deploy", DeployEnv, deploy.version,
                         behind(release, deploy), deploy.timestamp,
                         deploy.commit, deploy.action_type, Contains(deploy),
                         deploy.author)>>
          ELSE <<>>
        Deploys(release, got) ==
          IF got.err = "InvalidRelease" THEN Rest(ReleaseRow(release))
          ELSE IF got.err # "" THEN [raised |-> got.err, rows |-> <<>>]
          ELSE Rest(ReleaseRow(release) \o DeployRow(release, got.release))
        Fetched(got) ==
          IF got.err = "InvalidRelease" THEN Rest(<<>>)
          ELSE IF got.err # "" THEN [raised |-> got.err, rows |-> <<>>]
          ELSE IF releases_only THEN Rest(ReleaseRow(got.release))
          ELSE Deploys(got.release,
                       fetch_release(client, DeployBucket, name, Nothing))
    IN  IF names = <<>> THEN [raised |-> "", rows |-> <<>>]
        ELSE IF only # Nothing /\ name \notin only[1] THEN Rest(<<>>)
        ELSE Fetched(fetch_release(client, ReleaseBucket, name, Nothing))

\* list_projects(contains, only, permissions=False, utc, env,
\* releases_only, profile): only is the set of names the pattern matches.
list_projects(client, r, contains, only, env_names, releases_only) ==
    LET Listed(rev) ==
          IF contains # Nothing /\ rev.err # ""
          THEN [raised |-> rev.err, rows |-> <<>>]
          ELSE ListRows(client, r,
                        IF contains = Nothing THEN Nothing ELSE Some(rev.oid),
                        only, env_names, releases_only,
                        ProjectNames(client, ReleaseBucket))
    IN  Listed(revparse(r, contains))

\* Releases and deploys of the projects are stored, by any process, and
\* between two writes a process lists the projects, with a credential that
\* may be denied the read of a key.
InitList ==
    /\ s3 = [b \in Buckets |-> <<>>]
    /\ vcache = NoMemo
    /\ out = NoOut
    /\ pushed = Nothing
    /\ repo \in WorkRepos
    /\ env = [IS_CONCOURSE |-> FALSE]
    /\ proc = [p \in CliProcs |-> Idle]

StoreRelease(bucket, key, body) ==
    /\ Len(s3[ReleaseBucket]) + Len(s3[DeployBucket]) < MaxLen
    /\ s3' = PutObject(s3, bucket, key, body, Tick(s3, bucket))
    /\ out' = NoOut
    /\ UNCHANGED <<vcache, pushed, repo, env, proc>>

CallListProjects(denied, contains, only, env_names, releases_only) ==
    /\ out.op = "none"
    /\ out' = [NoOut EXCEPT
                 !.op = "list_projects",
                 !.args = <<denied, contains, only, env_names, releases_only>>,
                 !.ret = Some(list_projects(s3_client(denied), repo, contains,
                                            only, env_names, releases_only))]
    /\ UNCHANGED <<s3, vcache, pushed, repo, env, proc>>

\* What a listing may be denied: nothing, or one key of one bucket.
Denials == {{}} \cup {{<<b, k>>} : b \in Buckets, k \in Keys}
ListBodies == {NotJson} \cup {SomeBody(v) : v \in 1..MaxVer}
ContainsArgs == {Nothing, Some(1), Some(NCommits + 1)}
OnlyArgs == {Nothing, Some({ProjectKey})}
EnvArgs == {Nothing, Some({DeployEnv})}

NextList ==
    \/ \E bucket \in Buckets, key \in Keys, body \in ListBodies :
          StoreRelease(bucket, key, body)
    \/ \E denied \in Denials, contains \in ContainsArgs, only \in OnlyArgs,
          env_names \in EnvArgs, releases_only \in BOOLEAN :
          CallListProjects(denied, contains, only, env_names, releases_only)

SpecList == InitList /\ [][NextList]_vars

(***************************************************************************)
(* `release find`: releases of any commits are stored, and a process looks *)
(* for the release of a commit, in any repository of NCommits commits.     *)
(***************************************************************************)
\* {release.commit: release for release in get_releases(client, name)}[oid]:
\* of the releases of the commit, the one yielded last.
ReleaseOf(yielded, oid) ==
    yielded[CHOOSE i \in 1..Len(yielded) :
               /\ yielded[i].commit = oid
               /\ \A j \in (i + 1)..Len(yielded) : yielded[j].commit # oid]

\* release.find: the release that is printed, or the message that is
\* logged.
find(client, r, name, commit) ==
    LET Found(logs, yielded) ==
          LET hits == {i \in 1..Len(logs) :
                          \E j \in 1..Len(yielded) :
                              yielded[j].commit = logs[i]}
          IN  IF hits # {}
              THEN [status |-> "ok",
                    printed |-> Some(ReleaseOf(yielded,
                                       logs[CHOOSE i \in hits :
                                               \A j \in hits : j <= i])),
                    message |-> ""]
              ELSE [status |-> "ok", printed |-> Nothing,
                    message |-> "Commit not released yet"]
        Walked(oid, releases, log) ==
          IF releases.raised
          THEN [status |-> "raised", printed |-> Nothing, message |-> ""]
          ELSE IF log.err # ""
          THEN [status |-> "fatal", printed |-> Nothing, message |-> ""]
          ELSE LET at == {i \in 1..Len(log.logs) : log.logs[i] = oid}
               IN  Found(IF at = {} THEN log.logs
                         ELSE SubSeq(log.logs, 1, CHOOSE i \in at : TRUE),
                         releases.yielded)
        Parsed(rev) ==
          IF rev.err # ""
          THEN [status |-> "fatal", printed |-> Nothing, message |-> ""]
          ELSE Walked(rev.oid,
                      get_releases(client, name, Nothing, ReleaseBucket),
                      git_log(r, NullOid, NullOid))
    IN  Parsed(revparse(r, commit))

\* The bodies of the releases of the commits.
FindBodies ==
    {StoredBody(version, commit, Text("truncated", <<commit>>), commit, "me",
                FALSE, "manual", Nothing) :
       version \in 1..MaxVer, commit \in Commits}

InitFind ==
    /\ s3 = [b \in Buckets |-> <<>>]
    /\ vcache = NoMemo
    /\ out = NoOut
    /\ pushed = Nothing
    /\ repo \in Repos
    /\ env = [IS_CONCOURSE |-> FALSE]
    /\ proc = [p \in CliProcs |-> Idle]

CallFind(name, commit) ==
    /\ out.op = "none"
    /\ out' = [NoOut EXCEPT !.op = "find", !.key = name,
                            !.args = <<commit>>,
                            !.ret = Some(find(Fresh(s3), repo, name, commit))]
    /\ UNCHANGED <<s3, vcache, pushed, repo, env, proc>>

NextFind ==
    \/ \E body \in FindBodies : StoreRelease(ReleaseBucket, ProjectKey, body)
    \/ \E commit \in Revisions : CallFind(ProjectKey, commit)

SpecFind == InitFind /\ [][NextFind]_vars

(***************************************************************************)
(* projects.check_perms and projects.assumed_role_to_role.  An ARN is the  *)
(* sequence of its fields and separators.                                  *)
(***************************************************************************)
\* str.split(sep): the fields between the separators.
RECURSIVE Split(_, _)
Split(text, sep) ==
    IF \A i \in 1..Len(text) : text[i] # sep THEN <<text>>
    ELSE LET at == CHOOSE i \in 1..Len(text) :
                      text[i] = sep /\ \A j \in 1..(i - 1) : text[j] # sep
         IN  <<SubSeq(text, 1, at - 1)>>
             \o Split(SubSeq(text, at + 1, Len(text)), sep)

\* sep.join(parts)
RECURSIVE Join(_, _)
Join(parts, sep) ==
    IF parts = <<>> THEN <<>>
    ELSE IF Len(parts) = 1 THEN parts[1]
    ELSE parts[1] \o <<sep>> \o Join(Tail(parts), sep)

\* assumed_role_to_role(caller_arn): the ARN to simulate, or the error
\* that ends the command.
assumed_role_to_role(caller_arn) ==
    LET arn_parts == Split(caller_arn, ":")
        Normal(user_parts) ==
          IF user_parts[1] # <<"assumed-role">>
          THEN [status |-> "ok", arn |-> caller_arn]
          ELSE IF Len(user_parts) < 2
          THEN [status |-> "raised", arn |-> <<>>]
          ELSE [status |-> "ok",
                arn |-> Join([arn_parts EXCEPT ![6] =
                                 Join(<<<<"role">>, user_parts[2]>>, "/")],
                             ":")]
    IN  IF SubSeq(arn_parts, 1, 3) # <<<<"arn">>, <<"aws">>, <<"sts">>>>
        THEN [status |-> "fatal", arn |-> <<>>]
        ELSE IF Len(arn_parts) < 6 THEN [status |-> "raised", arn |-> <<>>]
        ELSE Normal(Split(arn_parts[6], "/"))

\* The decisions of the policy engine.
Decisions == {"allowed", "explicitDeny", "implicitDeny"}

\* results[project] = value
Assign(results, project, value) ==
    [x \in DOMAIN results \cup {project} |->
        IF x = project THEN value ELSE results[x]]

\* The inner loop of check_perms: the decision of the first
\* resource-specific result of the resource, if there is one.
RECURSIVE Specific(_, _, _)
Specific(results, arn, rsrs) ==
    IF rsrs = <<>> THEN results
    ELSE IF Head(rsrs).EvalResourceName = arn
    THEN Assign(results, arn, Head(rsrs).EvalResourceDecision = "allowed")
    ELSE Specific(results, arn, Tail(rsrs))

\* The loop of check_perms over perms["EvaluationResults"].  A resource is
\* named by its project.
RECURSIVE Evaluated(_, _)
Evaluated(results, ev_results) ==
    IF ev_results = <<>> THEN results
    ELSE Evaluated(IF Head(ev_results).EvalDecision = "allowed"
                   THEN Assign(results, Head(ev_results).EvalResourceName,
                               TRUE)
                   ELSE Specific(results, Head(ev_results).EvalResourceName,
                                 Head(ev_results).ResourceSpecificResults),
                   Tail(ev_results))

\* check_perms(iam_client, bucket_name, project_names, profile), for the
\* region of the profile and the answer of simulate_principal_policy.
check_perms(region, caller_arn, project_names, ev_results) ==
    LET Simulated(arn) ==
          IF arn.status # "ok" THEN [status |-> arn.status, results |-> <<>>]
          ELSE [status |-> "ok", results |-> Evaluated(<<>>, ev_results)]
    IN  IF region = Nothing THEN [status |-> "fatal", results |-> <<>>]
        ELSE Simulated(assumed_role_to_role(caller_arn))

\* The caller identities: an assumed role, a federated user, an IAM user
\* and an IAM role.
AssumedRole ==
    <<"arn", ":", "aws", ":", "sts", ":", "", ":", "123456789012", ":",
      "assumed-role", "/", "deploy-role", "/", "alice">>
FederatedUser ==
    <<"arn", ":", "aws", ":", "sts", ":", "", ":", "123456789012", ":",
      "federated-user", "/", "bob">>
IamUser ==
    <<"arn", ":", "aws", ":", "iam", ":", "", ":", "123456789012", ":",
      "user", "/", "alice">>
IamRole ==
    <<"arn", ":", "aws", ":", "iam", ":", "", ":", "123456789012", ":",
      "role", "/", "deploy-role">>
CallerArns == {AssumedRole, FederatedUser, IamUser, IamRole}

\* The resource-specific results of one evaluation result: none, or one or
\* two, each for a requested resource.
SpecificResults ==
    UNION {[1..n -> [EvalResourceName : Keys,
                     EvalResourceDecision : {"allowed", "implicitDeny"}]] :
             n \in 0..MaxVer}

\* The answers of the engine for the requested resources: one evaluation
\* result per resource, in the order of the request.
EvaluationResults(project_names) ==
    {[i \in 1..Len(project_names) |->
         [EvalResourceName |-> project_names[i],
          EvalDecision |-> c[i].decision,
          ResourceSpecificResults |-> c[i].specific]] :
       c \in [1..Len(project_names) ->
                 [decision : Decisions, specific : SpecificResults]]}

InitPerms ==
    /\ s3 = [b \in Buckets |-> <<>>]
    /\ vcache = NoMemo
    /\ out = NoOut
    /\ pushed = Nothing
    /\ repo = Linear
    /\ env = [IS_CONCOURSE |-> FALSE]
    /\ proc = [p \in CliProcs |-> Idle]

CallAssumedRoleToRole(caller_arn) ==
    /\ out.op = "none"
    /\ out' = [NoOut EXCEPT !.op = "assumed_role_to_role",
                            !.args = <<caller_arn>>,
                            !.ret = Some(assumed_role_to_role(caller_arn))]
    /\ UNCHANGED <<s3, vcache, pushed, repo, env, proc>>

CallCheckPerms(region, caller_arn, project_names, ev_results) ==
    /\ out.op = "none"
    /\ out' = [NoOut EXCEPT !.op = "check_perms",
                            !.args = <<region, caller_arn, project_names,
                                       ev_results>>,
                            !.ret = Some(check_perms(region, caller_arn,
                                                     project_names,
                                                     ev_results))]
    /\ UNCHANGED <<s3, vcache, pushed, repo, env, proc>>

Regions == {Nothing, Some("eu-west-1")}
ProjectLists == {<<ProjectKey>>, <<ProjectKey, OtherKey>>}

NextPerms ==
    \/ \E caller_arn \in CallerArns : CallAssumedRoleToRole(caller_arn)
    \/ \E region \in Regions, caller_arn \in {AssumedRole},
          project_names \in ProjectLists :
          \E ev_results \in EvaluationResults(project_names) :
             CallCheckPerms(region, caller_arn, project_names, ev_results)

SpecPerms == InitPerms /\ [][NextPerms]_vars

(***************************************************************************)
(* Reads of a bucket that holds the histories of two keys, one a prefix    *)
(* of the other: the library's reads and `release current`, `release get`. *)
(***************************************************************************)
\* release.current: the latest release of the project is printed, or the
\* command is fatal.
current(client, name) ==
    LET Shown(release) ==
          IF release.raised
          THEN [status |-> "raised", printed |-> Nothing, message |-> ""]
          ELSE IF release.ret # Nothing
          THEN [status |-> "ok", printed |-> release.ret, message |-> ""]
          ELSE [status |-> "fatal", printed |-> Nothing,
                message |-> "Release does not exist"]
    IN  Shown(NextRelease(client, name, ReleaseBucket))

\* release.get: the release of the version is printed, or the command is
\* fatal.
get(client, name, version) ==
    LET Shown(release) ==
          IF release.raised
          THEN [status |-> "raised", printed |-> Nothing, message |-> ""]
          ELSE IF release.ret # Nothing
          THEN [status |-> "ok", printed |-> release.ret, message |-> ""]
          ELSE [status |-> "fatal", printed |-> Nothing,
                message |-> "Release does not exist"]
    IN  Shown(get_release(client, name, Some(version), ReleaseBucket))

\* The bodies of the two-key histories: not JSON, and a valid release.
KeyBodies == {NotJson, SomeBody(1)}

\* The histories of a bucket with two keys: each version has a key, any
\* LastModified and the store's stamp (or "null" for at most one write made
\* while the bucket was unversioned); the last write of a key is the one
\* flagged IsLatest.
KeyLedgers ==
    UNION {
      { [i \in 1..n |->
            [Key |-> c[i].key,
             VersionId |-> IF i = null THEN NullVersionId ELSE i,
             LastModified |-> c[i].lm,
             IsLatest |-> (\A j \in (i + 1)..n : c[j].key # c[i].key),
             Body |-> c[i].body]] :
          c \in [1..n -> [key : Keys, lm : 1..MaxTime, body : KeyBodies]],
          null \in 0..n }
      : n \in 0..MaxLen }

InitKeys ==
    /\ \E ledger \in KeyLedgers :
          s3 = [b \in Buckets |-> IF b = ReleaseBucket THEN ledger ELSE <<>>]
    /\ vcache = NoMemo
    /\ out = NoOut
    /\ pushed = Nothing
    /\ repo = Linear
    /\ env = [IS_CONCOURSE |-> FALSE]
    /\ proc = [p \in CliProcs |-> Idle]

CallGetVersions(bucket, key) ==
    /\ out' = [NoOut EXCEPT !.op = "_get_versions", !.bucket = bucket,
                            !.key = key,
                            !.ret = Some(_get_versions(Fresh(s3), bucket, key))]
    /\ UNCHANGED <<s3, vcache, pushed, repo, env, proc>>

\* fetch_release of the key's latest version, or of a stamp that
\* _get_versions has listed.
CallFetchRelease(bucket, key, version_id) ==
    /\ \/ version_id = Nothing
       \/ \E i \in 1..Len(s3[bucket]) :
             /\ version_id # Nothing
             /\ s3[bucket][i].Key = key
             /\ s3[bucket][i].VersionId # NullVersionId
             /\ s3[bucket][i].VersionId = version_id[1]
    /\ out' = [NoOut EXCEPT !.op = "fetch_release", !.bucket = bucket,
                            !.key = key, !.args = <<version_id>>,
                            !.ret = Some(fetch_release(Fresh(s3), bucket, key,
                                                       version_id))]
    /\ UNCHANGED <<s3, vcache, pushed, repo, env, proc>>

CallCurrent(name) ==
    /\ out' = [NoOut EXCEPT !.op = "current", !.key = name,
                            !.ret = Some(current(Fresh(s3), name))]
    /\ UNCHANGED <<s3, vcache, pushed, repo, env, proc>>

CallGet(name, version) ==
    /\ out' = [NoOut EXCEPT !.op = "get", !.key = name,
                            !.version = Some(version),
                            !.ret = Some(get(Fresh(s3), name, version))]
    /\ UNCHANGED <<s3, vcache, pushed, repo, env, proc>>

\* One call of a process that has read nothing yet.
FirstCall == out.op = "none"

NextKeys ==
    \/ \E key \in Keys : FirstCall /\ CallGetVersions(ReleaseBucket, key)
    \/ \E key \in Keys, version_id \in {Nothing} \cup {Some(v) : v \in 1..MaxLen} :
          FirstCall /\ CallFetchRelease(ReleaseBucket, key, version_id)
    \/ \E key \in Keys, since \in SinceArgs :
          FirstCall /\ CallGetReleases(ApiProc, key, since, ReleaseBucket)
    \/ \E key \in Keys, version \in VersionArgs :
          FirstCall /\ CallGetRelease(ApiProc, key, version, ReleaseBucket)
    \/ \E name \in Keys : FirstCall /\ CallCurrent(name)
    \/ \E name \in Keys, version \in 1..MaxVer :
          FirstCall /\ CallGet(name, version)

SpecKeys == InitKeys /\ [][NextKeys]_vars

(***************************************************************************)
(* Bodies with and without action_type: a key that holds at most one       *)
(* version, written by this or by an earlier writer; a process puts a      *)
(* release and fetches the latest version.                                 *)
(***************************************************************************)
\* A body as the writers before action_type stored it.
LegacyBody(author) ==
    JsonObject([version |-> 1, commit |-> 1,
                changelog |-> Text("truncated", <<1>>), image |-> 1,
                author |-> author])

\* The bodies of the seed: legacy ones, and ones with an action_type, a
\* name of the enum or not.
SeedBodies ==
    {LegacyBody(author) : author \in {None, "me"}}
    \cup {StoredBody(1, 1, Text("truncated", <<1>>), 1, author, FALSE,
                     action_type, Nothing) :
            author \in {None, "me"},
            action_type \in ActionTypeNames \cup {"unknown"}}

InitBody ==
    /\ \E ledger \in {<<>>} \cup
                     {<<[Key |-> ProjectKey, VersionId |-> 1,
                         LastModified |-> 1, IsLatest |-> TRUE,
                         Body |-> body]>> : body \in SeedBodies} :
          s3 = [b \in Buckets |-> IF b = ReleaseBucket THEN ledger ELSE <<>>]
    /\ vcache = NoMemo
    /\ out = NoOut
    /\ pushed = Nothing
    /\ repo = Linear
    /\ env = [IS_CONCOURSE |-> FALSE]
    /\ proc = [p \in CliProcs |-> Idle]

NextBody ==
    \/ \E release \in Releases, last_modified, utcnow \in 1..MaxTime :
          CallPutRelease(ApiProc, ReleaseBucket, ProjectKey, release,
                         last_modified, utcnow)
    \/ /\ out.op # "fetch_release"
       /\ CallFetchRelease(ReleaseBucket, ProjectKey, Nothing)

SpecBody == InitBody /\ [][NextBody]_vars

(***************************************************************************)
(* The listing and the `current` commands on the same buckets: any short   *)
(* history of the project in the release bucket and in the environment     *)
(* bucket.                                                                 *)
(***************************************************************************)
\* deploy.current: the latest deploy of the project in the environment's
\* bucket is printed, or the command is fatal.
deploy_current(client, name, bucket) ==
    LET Shown(last_deploy) ==
          IF last_deploy.raised
          THEN [status |-> "raised", printed |-> Nothing, message |-> ""]
          ELSE IF last_deploy.ret # Nothing
          THEN [status |-> "ok", printed |-> last_deploy.ret, message |-> ""]
          ELSE [status |-> "fatal", printed |-> Nothing,
                message |-> "Release does not exist"]
    IN  Shown(NextRelease(client, name, bucket))

\* The histories of the project in one bucket: at most MaxVer versions,
\* each not JSON or a release, with any LastModified and the store's stamp
\* (or "null" for at most one write made while the bucket was unversioned).
RowLedgers ==
    {l \in Ledgers(ProjectKey) :
        /\ Len(l) <= MaxVer
        /\ \A i \in 1..Len(l) : l[i].Body \in ListBodies}

InitRows ==
    /\ s3 \in [Buckets -> RowLedgers]
    /\ vcache = NoMemo
    /\ out = NoOut
    /\ pushed = Nothing
    /\ repo = Linear
    /\ env = [IS_CONCOURSE |-> FALSE]
    /\ proc = [p \in CliProcs |-> Idle]

CallDeployCurrent(name, bucket) ==
    /\ out' = [NoOut EXCEPT !.op = "deploy_current", !.key = name,
                            !.bucket = bucket,
                            !.ret = Some(deploy_current(Fresh(s3), name,
                                                        bucket))]
    /\ UNCHANGED <<s3, vcache, pushed, repo, env, proc>>

NextRows ==
    \/ \E env_names \in EnvArgs, releases_only \in BOOLEAN :
          CallListProjects({}, Nothing, Nothing, env_names, releases_only)
    \/ FirstCall /\ CallCurrent(ProjectKey)
    \/ FirstCall /\ CallDeployCurrent(ProjectKey, DeployBucket)

SpecRows == InitRows /\ [][NextRows]_vars

(***************************************************************************)
(* Properties of the reads.                                                *)
(***************************************************************************)
EntryOf(bucket, key, version_id) ==
    CHOOSE e \in Stored(bucket, key) : e.VersionId = version_id

IsReleaseOf(r, e) ==
    /\ ValidEntry(e)
    /\ r.version_id = e.VersionId
    /\ r.timestamp = e.LastModified
    /\ r.version = e.Body.obj.version

\* i comes before j in newest-first order: the IsLatest version before
\* every other one, the others by LastModified, latest first.
Before(e, f) ==
    \/ e.IsLatest
    \/ ~f.IsLatest /\ e.LastModified >= f.LastModified

\* C1: get_releases without since yields valid stored versions of the key,
\* each once, by LastModified descending, except that the version flagged
\* IsLatest, when it is valid, is the first one yielded, whatever the
\* LastModified of the others.
C1_NewestFirstLatestWins ==
    (out.op = "get_releases" /\ out.since = Nothing) =>
        LET ys == out.yielded
            E(i) == EntryOf(out.bucket, out.key, ys[i].version_id)
        IN  /\ \A i \in 1..Len(ys) :
                  /\ \E e \in Stored(out.bucket, out.key) :
                        e.VersionId = ys[i].version_id
                  /\ IsReleaseOf(ys[i], E(i))
            /\ \A i, j \in 1..Len(ys) :
                  i < j => /\ ys[i].version_id # ys[j].version_id
                           /\ Before(E(i), E(j))
            /\ \A e \in Stored(out.bucket, out.key) :
                  (e.IsLatest /\ ValidEntry(e)) =>
                      /\ ys # <<>>
                      /\ ys[1].version_id = e.VersionId

\* C1 witness: the IsLatest version was yielded first although a version
\* yielded after it has a later LastModified.
C1_Witness ==
    /\ out.op = "get_releases"
    /\ out.since = Nothing
    /\ Len(out.yielded) >= 2
    /\ \E i \in 2..Len(out.yielded) :
          out.yielded[i].timestamp > out.yielded[1].timestamp
    /\ EntryOf(out.bucket, out.key, out.yielded[1].version_id).IsLatest

\* The longest prefix of a sequence of releases whose versions are all at
\* least n.
RECURSIVE WhileAtLeast(_, _)
WhileAtLeast(rs, n) ==
    IF rs = <<>> \/ Head(rs).version < n THEN <<>>
    ELSE <<Head(rs)>> \o WhileAtLeast(Tail(rs), n)

\* C2: get_releases(since=N) yields no release whose version is below N,
\* and what it yields is the newest-first sequence of get_releases cut at
\* its first release below N: the releases after that one are not yielded,
\* even those whose version is N or more.
C2_SinceStops ==
    (out.op = "get_releases" /\ out.since # Nothing) =>
        LET n == out.since[1]
            all == get_releases(Client(ApiProc), out.key, Nothing,
                                out.bucket).yielded
        IN  /\ \A i \in 1..Len(out.yielded) : out.yielded[i].version >= n
            /\ out.yielded = WhileAtLeast(all, n)

\* C2 witness: a release was yielded, and a release that get_releases
\* yields later than a release below N has a version of at least N.
C2_Witness ==
    /\ out.op = "get_releases"
    /\ out.since # Nothing
    /\ out.yielded # <<>>
    /\ LET all == get_releases(Client(ApiProc), out.key, Nothing,
                               out.bucket).yielded
       IN  \E i, j \in 1..Len(all) :
              /\ i < j
              /\ all[i].version < out.since[1]
              /\ all[j].version >= out.since[1]

\* C3: get_releases never raises over an invalid stored version, and
\* without since it yields every valid version exactly once and no other.
C3_InvalidSkippedNeverRaises ==
    out.op = "get_releases" =>
        /\ ~out.raised
        /\ out.since = Nothing =>
              /\ {out.yielded[i].version_id : i \in 1..Len(out.yielded)}
                    = {e.VersionId : e \in {f \in Stored(out.bucket, out.key) :
                                               ValidEntry(f)}}
              /\ \A i, j \in 1..Len(out.yielded) :
                    i # j => out.yielded[i].version_id
                                # out.yielded[j].version_id

\* C4: get_release returns the first release, in get_releases order, whose
\* version is the requested one, which is the newest stored release with
\* that version; it returns None, and does not raise, when get_releases is
\* exhausted without a match.
C4_FirstMatchOrNone ==
    out.op = "get_release" =>
        LET it == get_releases(Client(ApiProc), out.key, Nothing, out.bucket)
            Match(r) == out.version = Nothing \/ r.version = out.version[1]
            hits == {i \in 1..Len(it.yielded) : Match(it.yielded[i])}
        IN  /\ hits # {} =>
                  /\ out.ret # Nothing
                  /\ ~out.raised
                  /\ \E i \in hits :
                        /\ out.ret[1] = it.yielded[i]
                        /\ \A j \in hits : i <= j
                  /\ \A e \in Stored(out.bucket, out.key) :
                        (ValidEntry(e) /\ Match(e.Body.obj)) =>
                            Before(EntryOf(out.bucket, out.key,
                                           out.ret[1].version_id), e)
            /\ hits = {} => out.ret = Nothing
            /\ (hits = {} /\ ~it.raised) => ~out.raised

\* C4 witness: a release was returned for a version number that two valid
\* stored versions carry.
C4_Witness ==
    /\ out.op = "get_release"
    /\ out.version # Nothing
    /\ out.ret # Nothing
    /\ \E e, f \in Stored(out.bucket, out.key) :
          /\ e # f
          /\ ValidEntry(e) /\ ValidEntry(f)
          /\ e.Body.obj.version = out.version[1]
          /\ f.Body.obj.version = out.version[1]

(***************************************************************************)
(* Properties of the ledger under the commands.                            *)
(***************************************************************************)
VersionsOf(store, bucket, key) ==
    {i \in 1..Len(store[bucket]) : store[bucket][i].Key = key}

StoredVersion(bucket, i) == s3[bucket][i].Body.obj.version

\* C6: from empty buckets, when the commands run one after another and
\* `release new` is given no --version, the i-th version stored in the
\* release bucket is release number i.
C6_SequentialVersions ==
    \A i \in 1..Len(s3[ReleaseBucket]) : StoredVersion(ReleaseBucket, i) = i

\* C6 witness: three runs of `release new` have stored their releases.
C6_Witness ==
    /\ Len(s3[ReleaseBucket]) = 3
    /\ \A p \in CliProcs : proc[p].cmd = "new" /\ proc[p].wrote # NullVersionId

Unique(bucket) ==
    \A i, j \in 1..Len(s3[bucket]) :
        i < j => StoredVersion(bucket, i) # StoredVersion(bucket, j)

\* The runs of `release new` that have stored their release.
Writers ==
    {p \in CliProcs : proc[p].cmd = "new" /\ proc[p].wrote # NullVersionId}

\* Two runs overlap when neither read the bucket after the other's write.
Overlap(p, q) ==
    proc[p].seen < proc[q].wrote /\ proc[q].seen < proc[p].wrote

\* C7 as stated: whatever the interleaving of runs of `release new` that
\* compute their version (no --version), no two stored releases of the key
\* carry the same version number.
C7_UniqueVersions ==
    (\A p \in Writers : ~proc[p].explicit) => Unique(ReleaseBucket)

\* C7 as amended: no two stored releases of the key carry the same version
\* number when the runs of `release new` that stored them computed their
\* version and no two of them overlap.
C7_UniqueUnlessOverlap ==
    (/\ \A p \in Writers : ~proc[p].explicit
     /\ \A p, q \in Writers : p # q => ~Overlap(p, q)) =>
        Unique(ReleaseBucket)

\* C7 witness: two runs that computed their version, one after the other,
\* have stored their releases.
C7_Witness ==
    /\ Cardinality(Writers) = 2
    /\ \A p \in Writers : ~proc[p].explicit
    /\ \A p, q \in Writers : p # q => ~Overlap(p, q)
    /\ Len(s3[ReleaseBucket]) = 2

\* What a reader that starts now gets as the latest release.
Latest == NextRelease(Client(ApiProc), ProjectKey, ReleaseBucket)

\* C8 as stated: the release reported as latest carries the highest
\* version number stored for the key, and among the stored releases with
\* that number it is the newest.
C8_LatestIsHighestVersion ==
    Stored(ReleaseBucket, ProjectKey) # {} =>
        /\ Latest.ret # Nothing
        /\ \A e \in Stored(ReleaseBucket, ProjectKey) :
              /\ e.Body.obj.version <= Latest.ret[1].version
              /\ e.Body.obj.version = Latest.ret[1].version =>
                    Before(EntryOf(ReleaseBucket, ProjectKey,
                                   Latest.ret[1].version_id), e)

\* C8 as amended: the release reported as latest is the one the last
\* append stored, the version the store flags IsLatest, whatever the
\* version numbers of the others.
C8_LatestIsLastAppended ==
    Stored(ReleaseBucket, ProjectKey) # {} =>
        /\ Latest.ret # Nothing
        /\ ~Latest.raised
        /\ Latest.ret[1].version_id = Len(s3[ReleaseBucket])
        /\ EntryOf(ReleaseBucket, ProjectKey,
                   Latest.ret[1].version_id).IsLatest
        /\ Latest.ret[1].version
              = StoredVersion(ReleaseBucket, Len(s3[ReleaseBucket]))

\* C8 witness: the release reported as latest has a lower version number
\* than an older stored release.
C8_Witness ==
    /\ Latest.ret # Nothing
    /\ \E e \in Stored(ReleaseBucket, ProjectKey) :
          e.Body.obj.version > Latest.ret[1].version

(***************************************************************************)
(* Properties of the changelog.                                            *)
(***************************************************************************)
\* A call of utils.changelog without filters on commits of the repository
\* (prev may be None).
PlainChangelog ==
    /\ out.op = "changelog"
    /\ InRepo(repo, out.args[1])
    /\ out.args[2] = NullOid \/ InRepo(repo, out.args[2])
    /\ out.args[3] = Nothing
    /\ out.args[4] \in {Nothing, Some(<<>>)}

\* latest and prev belong to one history: prev is None or they have an
\* ancestor in common.
Related ==
    \/ out.args[2] = NullOid
    \/ Ancestors(repo, out.args[1]) \cap Ancestors(repo, out.args[2]) # {}

\* C11: utils.changelog(repo, latest, prev) returns a Changelog whose
\* rollback flag is false exactly when prev is None or the walk from latest
\* reaches prev, and true exactly when prev is a commit that the walk from
\* latest does not reach (here: a commit of the same history).
C11_RollbackIsGraphProperty ==
    (PlainChangelog /\ Related) =>
        /\ out.ret[1].err = ""
        /\ out.ret[1].rollback
              = (/\ out.args[2] # NullOid
                 /\ out.args[2] \notin Ancestors(repo, out.args[1]))

\* C12: for x a proper ancestor of y, the changelog of (latest=x, prev=y)
\* is a rollback and lists the commits of the changelog of (latest=y,
\* prev=x), which is no rollback and leaves x out, in reversed order.
C12_RollbackIsForwardReversed ==
    (/\ PlainChangelog
     /\ out.args[2] # NullOid
     /\ out.args[1] # out.args[2]
     /\ out.args[1] \in Ancestors(repo, out.args[2])) =>
        LET forward == changelog(repo, out.args[2], out.args[1], Nothing,
                                 Nothing)
        IN  /\ forward.err = ""
            /\ ~forward.rollback
            /\ out.args[1] \notin Range(forward.logs)
            /\ out.ret[1].err = ""
            /\ out.ret[1].rollback
            /\ out.ret[1].logs = Reverse(forward.logs)

\* C13: with prev None the changelog is no rollback and lists every commit
\* reachable from latest, the root included.
C13_WalksToRoot ==
    (PlainChangelog /\ out.args[2] = NullOid) =>
        /\ out.ret[1].err = ""
        /\ ~out.ret[1].rollback
        /\ Range(out.ret[1].logs) = Ancestors(repo, out.args[1])

\* C14: for any two commits of one history utils.changelog returns a
\* Changelog: InvalidRange does not leave it.
C14_NoInvalidRange ==
    (PlainChangelog /\ out.args[2] # NullOid /\ Related) =>
        out.ret[1].err # "InvalidRange"

\* C19: release_contains never raises over a commit that is not in the
\* repository: it returns "?" when the release's commit is null or empty
\* or when the release's commit or the queried commit is not in the
\* repository, and otherwise True exactly when the queried commit is the
\* release's commit or one of its ancestors, else False.
C19_ContainsOrIndeterminate ==
    out.op = "release_contains"
    => /\ ~out.ret[1].raised
       /\ out.ret[1].value
            = IF \/ out.args[1] = NullOid
                 \/ ~InRepo(repo, out.args[1])
                 \/ ~InRepo(repo, out.args[2])
              THEN "?"
              ELSE IF out.args[2] \in Ancestors(repo, out.args[1])
              THEN "True"
              ELSE "False"

\* C19 witness: the queried commit is not in the repository, the release's
\* commit is another commit and is in it, and "?" was returned.
C19_Witness ==
    /\ out.op = "release_contains"
    /\ InRepo(repo, out.args[1])
    /\ ~InRepo(repo, out.args[2])
    /\ ~out.ret[1].raised
    /\ out.ret[1].value = "?"

(***************************************************************************)
(* Missing keys, and the versions of a key.                                *)
(***************************************************************************)
\* The bucket holds no version of the key.
Missing(bucket, key) == \A i \in 1..Len(s3[bucket]) : s3[bucket][i].Key # key

\* C21: for a key the bucket holds no version of, fetch_release raises
\* InvalidRelease, get_releases yields nothing and does not raise,
\* get_release returns None, and `release current` and `release get` are
\* fatal with 'Release does not exist', exit code 1, and print no release.
C21_MissingKeyIsInvalidRelease ==
    Missing(out.bucket, out.key)
    => /\ out.op = "fetch_release" => out.ret[1].err = "InvalidRelease"
       /\ out.op = "get_releases" => out.yielded = <<>> /\ ~out.raised
       /\ out.op = "get_release" => out.ret = Nothing /\ ~out.raised
       /\ out.op \in {"current", "get"}
          => /\ out.ret[1].status = "fatal"
             /\ ExitCode(out.ret[1].status) = 1
             /\ out.ret[1].message = "Release does not exist"
             /\ out.ret[1].printed = Nothing

\* C21 witness: `release current` of a project without a version was
\* fatal, in a bucket that holds a valid release of the project whose name
\* it is a prefix of.
C21_Witness ==
    /\ out.op = "current"
    /\ out.key = ProjectKey
    /\ Missing(ReleaseBucket, ProjectKey)
    /\ \E i \in 1..Len(s3[ReleaseBucket]) : ValidEntry(s3[ReleaseBucket][i])
    /\ out.ret[1].status = "fatal"

\* C22: _get_versions returns the stored versions of exactly the requested
\* key that have a version stamp, each once, in the order of their
\* LastModified, oldest first: no version of another key and no version
\* stored without a stamp.
C22_VersionsOfKey ==
    out.op = "_get_versions"
    => /\ \A i \in 1..Len(out.ret[1]) :
             /\ out.ret[1][i].Key = out.key
             /\ out.ret[1][i].VersionId # NullVersionId
       /\ \A i, j \in 1..Len(out.ret[1]) :
             i < j => out.ret[1][i].LastModified <= out.ret[1][j].LastModified
       /\ {out.ret[1][i] : i \in 1..Len(out.ret[1])}
            = {e \in Range(s3[out.bucket]) :
                 e.Key = out.key /\ e.VersionId # NullVersionId}
       /\ Len(out.ret[1])
            = Cardinality({e \in Range(s3[out.bucket]) :
                             e.Key = out.key /\ e.VersionId # NullVersionId})

\* C22 witness: versions of the key were returned from a bucket that also
\* holds a version of the key without a stamp and a version of the key it
\* is a prefix of.
C22_Witness ==
    /\ out.op = "_get_versions"
    /\ out.key = ProjectKey
    /\ out.ret[1] # <<>>
    /\ \E e \in Range(s3[out.bucket]) : e.Key = OtherKey
    /\ \E e \in Range(s3[out.bucket]) :
          e.Key = ProjectKey /\ e.VersionId = NullVersionId

(***************************************************************************)
(* The listing of the projects.                                            *)
(***************************************************************************)
\* The rows of a listing for the other names than name.
RowsOfOthers(rows, name) == SelectSeq(rows, LAMBDA row : row.name # name)

\* The listing reads a key of project name that the credential is denied.
DeniedProject(name) ==
    /\ out.op = "list_projects"
    /\ out.args[2] = Nothing \/ InRepo(repo, out.args[2][1])
    /\ out.args[3] = Nothing \/ name \in out.args[3][1]
    /\ \E i \in 1..Len(s3[ReleaseBucket]) : s3[ReleaseBucket][i].Key = name
    /\ \/ <<ReleaseBucket, name>> \in out.args[1]
       \/ /\ <<DeployBucket, name>> \in out.args[1]
          /\ ~out.args[5]
          /\ fetch_release(s3_client({}), ReleaseBucket, name, Nothing).err
               = ""

\* C20: when the store denies list_projects the read of one project's
\* release or deploy, the listing is not aborted: it returns, its rows for
\* the other projects are those of a listing that is denied nothing, and
\* the denied project has a row.
C20_AccessDeniedDegrades ==
    \A name \in Keys :
        DeniedProject(name)
        => /\ out.ret[1].raised = ""
           /\ RowsOfOthers(out.ret[1].rows, name)
                = RowsOfOthers(list_projects(s3_client({}), repo, out.args[2],
                                             out.args[3], out.args[4],
                                             out.args[5]).rows, name)
           /\ \E i \in 1..Len(out.ret[1].rows) : out.ret[1].rows[i].name = name

\* The version number in the body of the key's latest stored version.
LatestVersion(bucket, key) ==
    LET e == CHOOSE e \in Range(s3[bucket]) : e.Key = key /\ e.IsLatest
    IN  e.Body.obj.version

\* C23: in the rows of list_projects every deploy row has behind = the
\* version of the project's latest release minus the version of the
\* environment's latest deploy, below 0 when the deploy is ahead, and every
\* release row has behind = 0 and an empty environment name.
C23_BehindIsDifference ==
    out.op = "list_projects"
    => \A i \in 1..Len(out.ret[1].rows) :
          LET row == out.ret[1].rows[i]
          IN  /\ row.type = "deploy"
                 => row.behind = LatestVersion(ReleaseBucket, row.name)
                                   - LatestVersion(DeployBucket, row.name)
              /\ row.type = "release" => row.behind = 0 /\ row.env_name = ""

\* C23 witness: a deploy row of a deploy that is ahead of the project's
\* latest release, and a release row, in one listing.
C23_Witness ==
    /\ out.op = "list_projects"
    /\ \E i \in 1..Len(out.ret[1].rows) :
          /\ out.ret[1].rows[i].type = "deploy"
          /\ out.ret[1].rows[i].behind < 0
    /\ \E i \in 1..Len(out.ret[1].rows) : out.ret[1].rows[i].type = "release"

(***************************************************************************)
(* action_type in the stored body.                                         *)
(***************************************************************************)
\* The latest stored version of a key that has one.
LatestEntry(bucket, key) ==
    CHOOSE e \in Stored(bucket, key) : e.IsLatest

\* A stored version that is a release whose action_type, if it has one, is
\* a name of the enum.
Readable(e) ==
    /\ ValidEntry(e)
    /\ "action_type" \in DOMAIN e.Body.obj
       => e.Body.obj.action_type \in ActionTypeNames

\* C26: the body put_release stores has the action_type of the release;
\* fetch_release reads a body without action_type as automated when its
\* author is null and as manual otherwise, and a body with action_type with
\* that value.
C26_ActionTypeWrittenAndInferred ==
    /\ out.op = "put_release"
       => LET e == LatestEntry(out.bucket, out.key)
          IN  /\ "action_type" \in DOMAIN e.Body.obj
              /\ e.Body.obj.action_type = out.release[1].action_type
    /\ /\ out.op = "fetch_release"
       /\ Stored(out.bucket, out.key) # {}
       /\ Readable(LatestEntry(out.bucket, out.key))
       => LET body == LatestEntry(out.bucket, out.key).Body.obj
          IN  /\ out.ret[1].err = ""
              /\ out.ret[1].release.action_type
                   = IF "action_type" \in DOMAIN body THEN body.action_type
                     ELSE IF body.author = None THEN "automated"
                     ELSE "manual"

\* C26 witness: a body without action_type and with a null author was read
\* as automated.
C26_Witness ==
    /\ out.op = "fetch_release"
    /\ Stored(out.bucket, out.key) # {}
    /\ LatestEntry(out.bucket, out.key).Body = LegacyBody(None)
    /\ out.ret[1].err = ""
    /\ out.ret[1].release.action_type = "automated"

\* C29: the release row of a project has the version and the commit of the
\* release that `release current` prints for the project, and its deploy
\* row has the version of the deploy that `deploy current` prints for the
\* environment.
C29_RowsAreCurrent ==
    out.op = "list_projects"
    => \A i \in 1..Len(out.ret[1].rows) :
          LET row == out.ret[1].rows[i]
              Same(shown) ==
                /\ shown.status = "ok"
                /\ shown.printed[1].version = row.version
                /\ row.type = "release"
                   => shown.printed[1].commit = row.commit
          IN  Same(IF row.type = "release"
                   THEN current(Fresh(s3), row.name)
                   ELSE deploy_current(Fresh(s3), row.name, DeployBucket))

\* C29 witness: a listing with the release row and the deploy row of a
\* project whose latest release and latest deploy have an earlier
\* LastModified than the version before them.
C29_Witness ==
    /\ out.op = "list_projects"
    /\ Len(out.ret[1].rows) = 2
    /\ \A b \in Buckets :
          /\ Len(s3[b]) = 2
          /\ s3[b][1].LastModified > s3[b][2].LastModified
          /\ s3[b][1].Body # s3[b][2].Body
          /\ ValidEntry(s3[b][1])

(***************************************************************************)
(* `release find`.                                                         *)
(***************************************************************************)
\* The commit `release find` was asked for.
Queried == IF out.args[1] = Nothing THEN repo.head ELSE out.args[1][1]

\* The stored releases of the project that contain the queried commit.
Containing ==
    {e \in Stored(ReleaseBucket, ProjectKey) :
        Queried \in Ancestors(repo, e.Body.obj.commit)}

\* C30: `release find` prints a release only if the queried commit is the
\* commit of the release or one of its ancestors, and then prints the
\* earliest stored of the releases that contain the commit; when no release
\* contains the commit it prints none and reports 'Commit not released
\* yet'.
C30_FindsFirstContaining ==
    out.op = "find" /\ out.ret[1].status = "ok"
    => /\ out.ret[1].printed # Nothing
          => \E e \in Containing :
                /\ e.VersionId = out.ret[1].printed[1].version_id
                /\ \A f \in Containing : e.VersionId <= f.VersionId
       /\ Containing = {}
          => /\ out.ret[1].printed = Nothing
             /\ out.ret[1].message = "Commit not released yet"

(***************************************************************************)
(* The permission check.                                                   *)
(***************************************************************************)
\* The evaluation result of the engine for a requested resource.
ResultFor(project) ==
    LET ev_results == out.args[4]
    IN  ev_results[CHOOSE i \in 1..Len(ev_results) :
                      ev_results[i].EvalResourceName = project]

\* The resource-specific results of an evaluation result for its resource.
Matching(res) ==
    SelectSeq(res.ResourceSpecificResults,
              LAMBDA rsr : rsr.EvalResourceName = res.EvalResourceName)

\* C24: check_perms returns a boolean for every requested project: True
\* when the engine's decision for the resource is an allow; else the
\* decision of the first resource-specific result for the resource when
\* there is one; else, the decision being a deny, False.
C24_OneBooleanPerResource ==
    out.op = "check_perms" /\ out.ret[1].status = "ok"
    => \A i \in 1..Len(out.args[3]) :
          LET project == out.args[3][i]
          IN  /\ project \in DOMAIN out.ret[1].results
              /\ out.ret[1].results[project]
                   = IF ResultFor(project).EvalDecision = "allowed" THEN TRUE
                     ELSE IF Matching(ResultFor(project)) # <<>>
                     THEN Matching(ResultFor(project))[1].EvalResourceDecision
                            = "allowed"
                     ELSE FALSE

\* The ARN arn:aws:sts::ACCOUNT:assumed-role/ROLE/SESSION.
IsAssumedRole(arn) ==
    /\ Len(arn) = 15
    /\ SubSeq(arn, 1, 8) = <<"arn", ":", "aws", ":", "sts", ":", "", ":">>
    /\ SubSeq(arn, 10, 12) = <<":", "assumed-role", "/">>
    /\ arn[14] = "/"

\* C25: assumed_role_to_role returns arn:aws:sts::ACCOUNT:role/ROLE for
\* arn:aws:sts::ACCOUNT:assumed-role/ROLE/SESSION, and returns every other
\* ARN as it is.
C25_AssumedRoleNormalized ==
    out.op = "assumed_role_to_role"
    => /\ out.ret[1].status = "ok"
       /\ out.ret[1].arn
            = IF IsAssumedRole(out.args[1])
              THEN SubSeq(out.args[1], 1, 10) \o <<"role", "/", out.args[1][13]>>
              ELSE out.args[1]

(***************************************************************************)
(* The commands: the rollback flag, the prompts and the dry run.           *)
(***************************************************************************)
\* The command has built and printed its record.
Printed(c) == c.pc \notin {"idle", "deploy"} /\ c.release # Nothing

\* The command was ended with exit code 1 before any prompt and any write.
Refused(c) ==
    /\ c.pc = "done"
    /\ ExitCode(c.status) = 1
    /\ c.asked = <<>>
    /\ c.wrote = NullVersionId

\* The step stores a record whose rollback flag is true.
WritesRollback ==
    \E b \in Buckets :
        /\ s3'[b] # s3[b]
        /\ s3'[b][Len(s3'[b])].Body.obj.rollback

\* C15 as stated: a step of `release new` or `deploy start` stores a record
\* whose rollback flag is true only if --rollback was passed; and a command
\* whose printed record is a rollback, run without --rollback, has ended
\* with exit code 1, was asked nothing, wrote nothing, and its steps leave
\* every bucket as it was.
C15_RollbackNeedsFlag ==
    /\ [](Printed(proc[Cmd]) /\ proc[Cmd].release[1].rollback
             /\ ~proc[Cmd].flags[1].rollback
          => Refused(proc[Cmd]))
    /\ [][/\ WritesRollback => proc[Cmd].flags[1].rollback
          /\ (Printed(proc'[Cmd]) /\ proc'[Cmd].release[1].rollback
                 /\ ~proc'[Cmd].flags[1].rollback)
             => s3' = s3]_vars

\* C15 as amended: a step of `release new` or `deploy start` stores a
\* record whose rollback flag is true only if --rollback was passed; and a
\* command whose printed record is a rollback, run without --rollback and
\* without --dry, has ended with exit code 1, was asked nothing, wrote
\* nothing, and its steps leave every bucket as it was.
C15_RollbackNeedsFlagUnlessDry ==
    /\ [](Printed(proc[Cmd]) /\ proc[Cmd].release[1].rollback
             /\ ~proc[Cmd].flags[1].rollback /\ ~proc[Cmd].flags[1].dry
          => Refused(proc[Cmd]))
    /\ [][/\ WritesRollback => proc[Cmd].flags[1].rollback
          /\ (Printed(proc'[Cmd]) /\ proc'[Cmd].release[1].rollback
                 /\ ~proc'[Cmd].flags[1].rollback)
             => s3' = s3]_vars

\* C15 witness: `deploy start` of a release whose commit is no descendant
\* of the deployed one, without --rollback and without --dry, has been
\* refused.
C15_Witness ==
    /\ proc[Cmd].cmd = "deploy"
    /\ Printed(proc[Cmd])
    /\ proc[Cmd].release[1].rollback
    /\ ~proc[Cmd].flags[1].rollback
    /\ ~proc[Cmd].flags[1].dry
    /\ s3[DeployBucket] # <<>>
    /\ Refused(proc[Cmd])

\* The prompts of a command that goes on to put_release, with the answers
\* that let it go on.
Prompts(release, yes_answers) ==
    IF release.rollback
    THEN {<<<<"rollback", a>>, <<"write", b>>>> : a, b \in yes_answers}
    ELSE {<<<<"write", b>>>> : b \in yes_answers}

\* The prompts of the commands, when yes_answers are the answers taken for
\* a yes: with --yes no prompt is issued; without it the command is at
\* put_release, or has written, only after the rollback prompt (for a
\* rollback) and then the write prompt were answered yes; after any other
\* answer it has ended with exit code 1 and written nothing, and its steps
\* leave every bucket as it was.
Prompted(c, yes_answers) ==
    /\ c.flags # Nothing /\ c.flags[1].yes => c.asked = <<>>
    /\ (c.pc = "put" \/ c.wrote # NullVersionId) /\ ~c.flags[1].yes
       => c.asked \in Prompts(c.release[1], yes_answers)
    /\ (\E i \in 1..Len(c.asked) : c.asked[i][2] \notin yes_answers)
       => c.pc = "done" /\ ExitCode(c.status) = 1 /\ c.wrote = NullVersionId

\* C16 as stated: without --yes, `release new` and `deploy start` reach
\* put_release only after every prompt was answered y, the rollback prompt
\* first for a rollback; any other answer ends the command with exit code 1
\* and nothing is written; with --yes no prompt is issued.
C16_PromptsAnsweredY ==
    /\ [] Prompted(proc[Cmd], {"y"})
    /\ [][(\E i \in 1..Len(proc'[Cmd].asked) :
              proc'[Cmd].asked[i][2] # "y") => s3' = s3]_vars

\* C16 as amended: without --yes, `release new` and `deploy start` reach
\* put_release only after every prompt was answered y or Y, the rollback
\* prompt first for a rollback; any other answer ends the command with exit
\* code 1 and nothing is written; with --yes no prompt is issued.
C16_PromptsAnsweredYes ==
    /\ [] Prompted(proc[Cmd], {"y", "Y"})
    /\ [][(\E i \in 1..Len(proc'[Cmd].asked) :
              proc'[Cmd].asked[i][2] \notin {"y", "Y"}) => s3' = s3]_vars

\* C16 witness: `release new` of a rollback, with --rollback and without
\* --yes, has stored its record after two prompts.
C16_Witness ==
    /\ proc[Cmd].cmd = "new"
    /\ proc[Cmd].pc = "done"
    /\ proc[Cmd].wrote # NullVersionId
    /\ proc[Cmd].release[1].rollback
    /\ ~proc[Cmd].flags[1].yes
    /\ Len(proc[Cmd].asked) = 2

\* C17: a command run with --dry is asked nothing, never gets to
\* put_release and has written nothing; once its record is printed it has
\* returned, whatever the record's rollback flag and the other flags; and
\* its steps leave the version history of every bucket as it was.
C17_DryRunWritesNothing ==
    /\ [](proc[Cmd].flags # Nothing /\ proc[Cmd].flags[1].dry
          => /\ proc[Cmd].pc \in {"deploy", "done"}
             /\ proc[Cmd].asked = <<>>
             /\ proc[Cmd].wrote = NullVersionId
             /\ Printed(proc[Cmd])
                => proc[Cmd].pc = "done" /\ proc[Cmd].status = "dry")
    /\ [][proc'[Cmd].flags # Nothing /\ proc'[Cmd].flags[1].dry
          => s3' = s3]_vars

\* C17 witness: a dry run of `deploy start` has printed a rollback record,
\* without --rollback, and returned.
C17_Witness ==
    /\ proc[Cmd].cmd = "deploy"
    /\ proc[Cmd].pc = "done"
    /\ proc[Cmd].status = "dry"
    /\ proc[Cmd].flags[1].dry
    /\ ~proc[Cmd].flags[1].rollback
    /\ proc[Cmd].release[1].rollback
    /\ s3[DeployBucket] # <<>>

(***************************************************************************)
(* The records of `deploy start`.                                          *)
(***************************************************************************)
\* The commit is the other one or one of its descendants.
DescendantOrEqual(commit, other) ==
    commit = other \/ descendant_of(repo, commit, other)

CopiesRelease(record) ==
    \E e \in Stored(ReleaseBucket, ProjectKey) :
        /\ ValidEntry(e)
        /\ record.version = e.Body.obj.version
        /\ record.commit = e.Body.obj.commit
        /\ record.image = e.Body.obj.image

C18_MemoizedReadsAreFresh ==
    /\ out.op = "get_releases"
       => /\ out.yielded
               = get_releases(Fresh(s3), out.key, out.since, out.bucket).yielded
          /\ out.raised
               = get_releases(Fresh(s3), out.key, out.since, out.bucket).raised
    /\ out.op = "get_release"
       => /\ out.ret
               = get_release(Fresh(s3), out.key, out.version, out.bucket).ret
          /\ out.raised
               = get_release(Fresh(s3), out.key, out.version, out.bucket).raised

(***************************************************************************)
(* Properties of put_release.                                              *)
(***************************************************************************)
\* C9: after put_release of r, get_release of r.version returns a Release
\* equal in every field, version_id and timestamp included, to the one
\* put_release returned.
C9_GetReturnsWhatPutReturned ==
    (/\ out.op = "get_release"
     /\ pushed # Nothing
     /\ out.version = Some(pushed[1].version)) =>
        out.ret = pushed

StoredFields ==
    {"version", "commit", "image", "author", "changelog", "rollback",
     "action_type", "commits"}

\* C10: the body put_release writes for r parses back (fetch_release) to
\* r's version, commit, image, author, changelog, rollback, action_type
\* and commits.
C10_RoundTrip ==
    out.op = "put_release" =>
        LET got == fetch_release(Client(ApiProc), out.bucket, out.key,
                                 Some(out.ret[1].version_id))
        IN  /\ got.err = ""
            /\ \A f \in StoredFields : got.release[f] = out.release[1][f]

====
